---- MODULE Spec2Model ----
(***************************************************************************)
(* Model of Visualize_Logs/objects/CuckooJSONReport.py: the construction   *)
(* of the behaviour graph (networkx DiGraph + nodemetadata table) from a   *)
(* Cuckoo JSON report.                                                     *)
(*                                                                         *)
(* Strings that the code inspects character by character (paths and the   *)
(* ignore/include expressions) are sequences of one-character strings      *)
(* over Chars.  Host names and addresses, which the code only compares,    *)
(* are plain strings.  Python's None is the empty tuple and a present      *)
(* value v is the one-element tuple <<v>>.                                 *)
(***************************************************************************)
EXTENDS Integers, Sequences, FiniteSets, TLC

VARIABLES
    jsonreportdata,  \* the parsed report: behavior.processtree, behavior.processes, network.domains
    ignorepaths,     \* self.ignorepaths
    includepaths,    \* self.includepaths
    plotnetwork,     \* constructor flag
    plotfiles,       \* constructor flag
    digraph,         \* self.digraph: [node: name -> type attribute, edge: set of pairs]
    nodemetadata,    \* self.nodemetadata: name -> dict
    rootpid,         \* self.rootpid
    pc,              \* position of __init__
    stack,           \* pending calls of _add_processes_recursive, next one first
    procidx,         \* position of the loop of _add_process_metadata
    todo,            \* nodes of the metadata copy a correlator loop has not visited yet
    pending          \* arguments of the constructor calls the program makes after this one

vars == <<jsonreportdata, ignorepaths, includepaths, plotnetwork, plotfiles,
          digraph, nodemetadata, rootpid, pc, stack, procidx, todo, pending>>

-----------------------------------------------------------------------------
(* Bounds of the checked inputs. *)

MaxTree == 3        \* entries of the process tree
MaxCalls == 3       \* calls of a process with network activity
MaxFileCalls == 2   \* calls of a process with file activity
MaxRuns == 2        \* constructions of one program

-----------------------------------------------------------------------------
(* Python values *)

None == <<>>
Some(v) == <<v>>
Val(o) == o[1]

NoType == "untyped"

-----------------------------------------------------------------------------
(* Regular expressions, as Python's re module evaluates them on the       *)
(* characters of Chars: "a", "A" and "Z" are literals, a backslash        *)
(* escapes the next character: \\ is a literal backslash, \a the BEL      *)
(* character, \A the start of the string, \Z the end of the string, and a *)
(* pattern ending in a single backslash does not compile (re.error).      *)

Chars == {"a", "A", "Z", "\\"}

Lower(c) == IF c = "A" THEN "a" ELSE IF c = "Z" THEN "z" ELSE c

RECURSIVE Tokens(_, _)
Tokens(p, i) ==
    IF i > Len(p) THEN <<>>
    ELSE IF p[i] # "\\" THEN <<[k |-> "lit", c |-> p[i]]>> \o Tokens(p, i + 1)
    ELSE IF i = Len(p) THEN <<[k |-> "error", c |-> ""]>>
    ELSE LET c == p[i + 1]
             t == IF c = "\\" THEN [k |-> "lit", c |-> "\\"]
                  ELSE IF c = "a" THEN [k |-> "bel", c |-> ""]
                  ELSE IF c = "A" THEN [k |-> "start", c |-> ""]
                  ELSE [k |-> "end", c |-> ""]
         IN <<t>> \o Tokens(p, i + 2)

Compiles(p) == \A i \in 1..Len(Tokens(p, 1)) : Tokens(p, 1)[i].k # "error"

RECURSIVE MatchAt(_, _, _, _)
MatchAt(toks, j, s, pos) ==
    IF j > Len(toks) THEN TRUE
    ELSE LET t == toks[j] IN
         CASE t.k = "lit" -> /\ pos <= Len(s)
                             /\ Lower(s[pos]) = Lower(t.c)
                             /\ MatchAt(toks, j + 1, s, pos + 1)
           [] t.k = "bel" -> FALSE
           [] t.k = "start" -> pos = 1 /\ MatchAt(toks, j + 1, s, pos)
           [] t.k = "end" -> pos = Len(s) + 1 /\ MatchAt(toks, j + 1, s, pos)
           [] OTHER -> FALSE

(* re.search(pattern, string, re.IGNORECASE) is not None, for a pattern that compiles *)
ReSearch(pattern, string) ==
    \E pos \in 1..(Len(string) + 1) : MatchAt(Tokens(pattern, 1), 1, string, pos)

-----------------------------------------------------------------------------
(* Node names.  A name is the pair of the literal prefix the code formats  *)
(* it with and the formatted value: "PID {0}", "HOST {0}", '"IP {0}"',     *)
(* '"FILE {0}"', "FILE CREATE {0}", ... ; the prefixes differ pairwise, so *)
(* two names are equal exactly when prefix and value are.                  *)

PidName(pid) == <<"PID", pid>>
HostName(host) == <<"HOST", host>>
IpName(ip) == <<"IP", ip>>

(* the backslashes left out instead of doubled *)
RECURSIVE EscapeDropped(_)
EscapeDropped(filename) ==
    IF filename = <<>> THEN <<>>
    ELSE (IF Head(filename) = "\\" THEN <<>> ELSE <<Head(filename)>>)
         \o EscapeDropped(Tail(filename))

(* filename.replace('\\', '\\\\') *)
RECURSIVE Escape(_)
Escape(filename) ==
    IF filename = <<>> THEN <<>>
    ELSE (IF Head(filename) = "\\" THEN <<"\\", "\\">> ELSE <<Head(filename)>>)
         \o Escape(Tail(filename))

FileNodeName(filename) == <<"FILE", Escape(filename)>>

-----------------------------------------------------------------------------
(* networkx.DiGraph *)

EmptyGraph == [node |-> <<>>, edge |-> {}]

(* add_node(n, type=t): creates the node or updates its attribute *)
GraphAddNode(g, n, t) == [g EXCEPT !.node = (n :> t) @@ g.node]

(* add_edge(u, v): endpoints that are not nodes yet are added without attributes *)
GraphAddEdge(g, u, v) ==
    [node |-> g.node @@ (u :> NoType) @@ (v :> NoType),
     edge |-> g.edge \cup {<<u, v>>}]

(* dict item assignment d[k] = v *)
DictSet(d, k, v) == (k :> v) @@ d

-----------------------------------------------------------------------------
(* Arguments of a call: an ordered list of [name, value] *)

(* for arg in arguments: if arg['name'] == name: x = arg['value']  (the last one wins) *)
RECURSIVE ArgValue(_, _)
ArgValue(arguments, name) ==
    IF arguments = <<>> THEN None
    ELSE LET rest == ArgValue(Tail(arguments), name) IN
         IF rest # None THEN rest
         ELSE IF Head(arguments).name = name THEN Some(Head(arguments).value)
         ELSE None

(* the same loop ended by break: the first one wins *)
RECURSIVE FirstArgValue(_, _)
FirstArgValue(arguments, name) ==
    IF arguments = <<>> THEN None
    ELSE IF Head(arguments).name = name THEN Some(Head(arguments).value)
    ELSE FirstArgValue(Tail(arguments), name)

-----------------------------------------------------------------------------
(* _search_re: "true", "false", or "error" when re.search raises           *)
(* (TypeError for a None string, re.error for a string that does not       *)
(* compile as a pattern).  The code passes the string as re.search's       *)
(* pattern and the expression as the text that is searched.                *)

RECURSIVE SearchReFrom(_, _, _)
SearchReFrom(string, expressions, i) ==
    IF i > Len(expressions) THEN "false"
    ELSE IF string = None THEN "error"
    ELSE IF ~Compiles(Val(string)) THEN "error"
    ELSE IF ReSearch(Val(string), expressions[i]) THEN "true"
    ELSE SearchReFrom(string, expressions, i + 1)

SearchRe(string, expressions) == SearchReFrom(string, expressions, 1)

(* a filter that, given include expressions, drops what none of them hits *)
PathCheckIncludeRequired(string, ignore, include) ==
    IF include # <<>> /\ SearchRe(string, include) # "true" THEN "drop" ELSE "pass"

(* if (self._search_re(f, self.ignorepaths) and                           *)
(*         not self._search_re(f, self.includepaths)): continue           *)
(* "drop" when the continue is taken, "pass" when not, "error" on a raise *)
PathCheck(string, ignore, include) ==
    LET a == SearchRe(string, ignore) IN
    IF a = "error" THEN "error"
    ELSE IF a = "false" THEN "pass"
    ELSE LET b == SearchRe(string, include) IN
         IF b = "error" THEN "error"
         ELSE IF b = "true" THEN "pass"
         ELSE "drop"

-----------------------------------------------------------------------------
(* The state a handler works on: the metadata table, the graph, and        *)
(* whether an exception has been raised (which ends the construction).     *)

St(md, g) == [md |-> md, g |-> g, err |-> FALSE]
Raise(s) == [s EXCEPT !.err = TRUE]

(* _add_file; filename is an optional value, None raises AttributeError *)
AddFile(s, filename) ==
    IF filename = None THEN Raise(s)
    ELSE LET filenodename == FileNodeName(Val(filename)) IN
         IF filenodename \in DOMAIN s.md THEN s
         ELSE [s EXCEPT !.md = DictSet(s.md, filenodename,
                                       [node_type |-> "FILE", file |-> Val(filename)]),
                        !.g = GraphAddNode(s.g, filenodename, "FILE")]

(* _add_host *)
AddHost(s, host) ==
    LET hostnodename == HostName(host) IN
    IF hostnodename \in DOMAIN s.md THEN s
    ELSE [s EXCEPT !.md = DictSet(s.md, hostnodename,
                                  [node_type |-> "IP", host |-> host]),
                   !.g = GraphAddNode(s.g, hostnodename, "HOST")]

(* _add_ip *)
AddIp(s, ip) ==
    LET ipnodename == IpName(ip) IN
    IF ipnodename \in DOMAIN s.md THEN s
    ELSE [s EXCEPT !.md = DictSet(s.md, ipnodename,
                                  [node_type |-> "IP", ip |-> ip]),
                   !.g = GraphAddNode(s.g, ipnodename, "IP")]

(* a number that the events do not advance: the count of the processes *)
NextIdOfProcesses(s) == Cardinality({n \in DOMAIN s.md : s.md[n].node_type = "PID"})

(* nextid = len(self.nodemetadata) *)
NextId(s) == Cardinality(DOMAIN s.md)

-----------------------------------------------------------------------------
(* Process tree *)

(* the parent edge drawn whether or not the parent is a graph node *)
LinkToParentAlways(g, ppid_node, nodename) == GraphAddEdge(g, ppid_node, nodename)

(* the parent edge drawn from the child to the parent *)
LinkToParentReversed(g, ppid_node, nodename) ==
    IF ppid_node \in DOMAIN g.node THEN GraphAddEdge(g, nodename, ppid_node) ELSE g

(* a parent that is not a graph node is made one, of type PID, for the edge *)
LinkToParentCreated(g, ppid_node, nodename) ==
    IF ppid_node \in DOMAIN g.node THEN GraphAddEdge(g, ppid_node, nodename)
    ELSE GraphAddEdge(GraphAddNode(g, ppid_node, "PID"), ppid_node, nodename)

(* if ppid_node in self.digraph: self.digraph.add_edge(ppid_node, nodename) *)
LinkToParent(g, ppid_node, nodename) ==
    IF ppid_node \in DOMAIN g.node THEN GraphAddEdge(g, ppid_node, nodename) ELSE g

(* one call of _add_processes_recursive, up to the loop over the children *)
VisitProcess(s, processtreedict) ==
    LET pid == processtreedict.pid
        ppid == processtreedict.parent_id
        nodename == PidName(pid)
        ppid_node == PidName(ppid)
        g1 == GraphAddNode(s.g, nodename, "PID")
        md1 == DictSet(s.md, nodename,
                       [node_type |-> "PID", pid |-> pid, parent_id |-> ppid,
                        threads |-> processtreedict.threads,
                        environ |-> processtreedict.environ,
                        name |-> processtreedict.name,
                        module_path |-> processtreedict.module_path,
                        children |-> <<>>])
        md2 == IF ppid_node \notin DOMAIN md1
               THEN DictSet(md1, ppid_node,
                            [node_type |-> "PID", children |-> <<>>, cmdline |-> ""])
               ELSE md1
        md3 == [md2 EXCEPT ![ppid_node].children = Append(@, nodename)]
        g2 == LinkToParent(g1, ppid_node, nodename)
    IN [s EXCEPT !.md = md3, !.g = g2]

(* the body of the loop over createprocs.iterrows() *)
CreateProcStep(s, createproc) ==
    LET childpid == ArgValue(createproc.arguments, "ProcessId")
        found == ArgValue(createproc.arguments, "CommandLine")
        cmdline == IF found = None THEN "Not Available" ELSE Val(found)
        childnode == PidName(Val(childpid))
    IN IF childpid = None THEN s
       ELSE IF childnode \notin DOMAIN s.md THEN Raise(s)
       ELSE [s EXCEPT !.md = [s.md EXCEPT ![childnode] =
                                  ("cmdline" :> cmdline) @@ s.md[childnode]]]

RECURSIVE CreateProcsFrom(_, _, _)
CreateProcsFrom(s, calls, i) ==
    IF s.err \/ i > Len(calls) THEN s
    ELSE IF calls[i].api = "CreateProcessInternalW"
         THEN CreateProcsFrom(CreateProcStep(s, calls[i]), calls, i + 1)
         ELSE CreateProcsFrom(s, calls, i + 1)

(* the body of the loop of _add_process_metadata, for one entry of the    *)
(* flat process list; a DataFrame made of an empty call list has no       *)
(* 'timestamp' column, and reading it raises KeyError                     *)
ProcessMetadataStep(s, process) ==
    LET nodename == PidName(process.process_id) IN
    IF nodename \notin DOMAIN s.md THEN Raise(s)
    ELSE LET md1 == [s.md EXCEPT ![nodename] =
                         ("first_seen" :> process.first_seen) @@
                         ("calls" :> process.calls) @@ s.md[nodename]]
             s1 == [s EXCEPT !.md = md1]
         IN IF process.calls = <<>> THEN Raise(s1)
            ELSE CreateProcsFrom(s1, process.calls, 1)

-----------------------------------------------------------------------------
(* File activity *)

(* an event that is linked to the first of its files only *)
AddFileEventFirstFile(s, node, prefix, type, fields, filenodenames) ==
    LET evnodename == <<prefix, Cardinality(DOMAIN s.md)>>
    IN [s EXCEPT !.md = DictSet(s.md, evnodename, fields @@ [node_type |-> type]),
                 !.g = GraphAddEdge(GraphAddEdge(GraphAddNode(s.g, evnodename, type),
                                                 node, evnodename),
                                    evnodename, filenodenames[1])]

(* the block that ends every loop body of the six _add_file_* functions:  *)
(* number the event, enter it in the metadata table, add the event node   *)
(* and the edges from the process and to the file nodes                   *)
AddFileEvent(s, node, prefix, type, fields, filenodenames) ==
    LET nextid == NextId(s)
        evnodename == <<prefix, nextid>>
        md1 == DictSet(s.md, evnodename, fields @@ [node_type |-> type])
        g1 == GraphAddEdge(GraphAddNode(s.g, evnodename, type), node, evnodename)
        g2 == GraphAddEdge(g1, evnodename, filenodenames[1])
        g3 == IF Len(filenodenames) > 1
              THEN GraphAddEdge(g2, evnodename, filenodenames[2])
              ELSE g2
    IN [s EXCEPT !.md = md1, !.g = g3]

(* the loop body shared by creates, writes, reads and deletes: one path   *)
(* argument, checked against the ignore and include lists                 *)
OnePathStep(s, node, call, argname, prefix, type, extra, ignore, include) ==
    LET filename == ArgValue(call.arguments, argname)
        check == PathCheck(filename, ignore, include)
    IN IF filename = None THEN s
       ELSE IF check = "error" THEN Raise(s)
       ELSE IF check = "drop" THEN s
       ELSE LET s1 == AddFile(s, filename) IN
            AddFileEvent(s1, node, prefix, type,
                         extra @@ [file |-> Val(filename), timestamp |-> call.timestamp],
                         <<FileNodeName(Val(filename))>>)

FileCreateStep(s, node, filecreate, ignore, include) ==
    OnePathStep(s, node, filecreate, "FileName", "FILE CREATE", "FILECREATE",
                [existedbefore |-> ArgValue(filecreate.arguments, "ExistedBefore"),
                 desiredaccess |-> ArgValue(filecreate.arguments, "DesiredAccess"),
                 createdisposition |-> ArgValue(filecreate.arguments, "CreateDisposition"),
                 fileattribtes |-> ArgValue(filecreate.arguments, "FileAttributes")],
                ignore, include)

FileWriteStep(s, node, filewrite, ignore, include) ==
    OnePathStep(s, node, filewrite, "HandleName", "FILE WRITE", "FILEWRITE",
                <<>>, ignore, include)

FileReadStep(s, node, fileread, ignore, include) ==
    OnePathStep(s, node, fileread, "HandleName", "FILE READ", "FILEREAD",
                <<>>, ignore, include)

FileDeleteStep(s, node, filedelete, ignore, include) ==
    OnePathStep(s, node, filedelete, "FileName", "FILE DELETE", "FILEDELETE",
                <<>>, ignore, include)

(* the tail of the loop bodies of copies and moves: both file nodes, then the event *)
TwoPathEvent(s, node, call, prefix, type, extra, existingfilename, newfilename) ==
    LET s1 == AddFile(s, newfilename)
        s2 == AddFile(s1, existingfilename)
    IN IF s2.err THEN s2
       ELSE AddFileEvent(s2, node, prefix, type,
                         extra @@ [existingfile |-> Val(existingfilename),
                                   newfile |-> Val(newfilename),
                                   timestamp |-> call.timestamp],
                         <<FileNodeName(Val(newfilename)),
                           FileNodeName(Val(existingfilename))>>)

FileCopyStep(s, node, filecopy, ignore, include) ==
    LET existingfilename == ArgValue(filecopy.arguments, "ExistingFileName")
        existedbefore == ArgValue(filecopy.arguments, "ExistedBefore")
        newfilename == ArgValue(filecopy.arguments, "NewFileName")
        checknew == PathCheck(newfilename, ignore, include)
        checkexisting == PathCheck(existingfilename, ignore, include)
    IN IF newfilename = None THEN s
       ELSE IF checknew = "error" THEN Raise(s)
       ELSE IF checknew = "drop" THEN s
       ELSE IF checkexisting = "error" THEN Raise(s)
       ELSE IF checkexisting = "drop" THEN s
       ELSE TwoPathEvent(s, node, filecopy, "FILE COPY", "FILECOPY",
                         [existedbefore |-> existedbefore],
                         existingfilename, newfilename)

FileMoveStep(s, node, filemove, ignore, include) ==
    LET existingfilename == ArgValue(filemove.arguments, "ExistingFileName")
        newfilename == ArgValue(filemove.arguments, "NewFileName")
        checknew == PathCheck(newfilename, ignore, include)
    IN IF newfilename = None THEN s
       ELSE IF checknew = "error" THEN Raise(s)
       ELSE IF checknew = "drop" THEN s
       ELSE TwoPathEvent(s, node, filemove, "FILE MOVE", "FILEMOVE",
                         <<>>, existingfilename, newfilename)

CreateApis == {"NtCreateFile"}
WriteApis == {"NtWriteFile"}
ReadApis == {"NtReadFile"}
CopyApis == {"CopyFileW", "CopyFileA"}
DeleteApis == {"DeleteFileW", "DeleteFileA"}
MoveApis == {"MoveFileW", "MoveFileA", "MoveFileWithProgressW", "MoveFileWithProgressA"}

(* the rows of the api whatever their status *)
SelectedAnyStatus(call, apis) == call.api \in apis

(* the rows a file function selects: calls[(api is one of apis) & (status == True)] *)
Selected(call, apis) == call.api \in apis /\ call.status = TRUE

StepOf(kind, s, node, call, ignore, include) ==
    CASE kind = "create" -> FileCreateStep(s, node, call, ignore, include)
      [] kind = "write" -> FileWriteStep(s, node, call, ignore, include)
      [] kind = "read" -> FileReadStep(s, node, call, ignore, include)
      [] kind = "copy" -> FileCopyStep(s, node, call, ignore, include)
      [] kind = "delete" -> FileDeleteStep(s, node, call, ignore, include)
      [] OTHER -> FileMoveStep(s, node, call, ignore, include)

ApisOf(kind) ==
    CASE kind = "create" -> CreateApis
      [] kind = "write" -> WriteApis
      [] kind = "read" -> ReadApis
      [] kind = "copy" -> CopyApis
      [] kind = "delete" -> DeleteApis
      [] OTHER -> MoveApis

(* one of _add_file_creates, _writes, _reads, _copies, _deletes, _moves:  *)
(* the loop over the selected rows, in the order of the call list         *)
RECURSIVE AddFileKindFrom(_, _, _, _, _, _, _)
AddFileKindFrom(kind, s, node, calls, i, ignore, include) ==
    IF s.err \/ i > Len(calls) THEN s
    ELSE IF Selected(calls[i], ApisOf(kind))
         THEN AddFileKindFrom(kind, StepOf(kind, s, node, calls[i], ignore, include),
                              node, calls, i + 1, ignore, include)
         ELSE AddFileKindFrom(kind, s, node, calls, i + 1, ignore, include)

AddFileKind(kind, s, node, calls, ignore, include) ==
    AddFileKindFrom(kind, s, node, calls, 1, ignore, include)

(* every file linked to every process that has a module path *)
ConnectFileToPidAll(s) ==
    LET links == {<<linknode, node>> \in (DOMAIN s.md) \X (DOMAIN s.md) :
                     /\ s.md[node].node_type = "PID"
                     /\ "module_path" \in DOMAIN s.md[node]
                     /\ s.md[linknode].node_type = "FILE"}
    IN IF s.err THEN s ELSE [s EXCEPT !.g.edge = s.g.edge \cup links]

(* _connect_file_to_pid *)
ConnectFileToPid(s) ==
    LET links == {<<linknode, node>> \in (DOMAIN s.md) \X (DOMAIN s.md) :
                     /\ s.md[node].node_type = "PID"
                     /\ "module_path" \in DOMAIN s.md[node]
                     /\ s.md[linknode].node_type = "FILE"
                     /\ s.md[node].module_path = s.md[linknode].file}
    IN IF s.err THEN s
       ELSE [s EXCEPT !.g = [node |-> s.g.node @@
                                      [n \in {l[1] : l \in links} \cup {l[2] : l \in links}
                                          |-> NoType],
                             edge |-> s.g.edge \cup links]]

(* the six calls of the loop body of _add_file_activity, in their order *)
FileKinds == <<"create", "write", "read", "copy", "delete", "move">>

RECURSIVE AddFileKindsFrom(_, _, _, _, _, _)
AddFileKindsFrom(s, node, calls, k, ignore, include) ==
    IF k > Len(FileKinds) THEN s
    ELSE AddFileKindsFrom(AddFileKind(FileKinds[k], s, node, calls, ignore, include),
                          node, calls, k + 1, ignore, include)

(* the body of the loop of _add_file_activity for one PID node with calls *)
FileActivityOf(s, node, ignore, include) ==
    ConnectFileToPid(AddFileKindsFrom(s, node, s.md[node].calls, 1, ignore, include))

-----------------------------------------------------------------------------
(* Network activity *)

IPProto ==
    (0 :> "IPPROTO_IP") @@ (1 :> "IPPROTO_ICMP") @@ (4 :> "IPPROTO_IGMP") @@
    (6 :> "IPPROTO_TCP") @@ (8 :> "IPPROTO_EGP") @@ (12 :> "IPPROTO_PUP") @@
    (17 :> "IPPROTO_UDP") @@ (29 :> "IPPROTO_IDP") @@ (33 :> "IPPROTO_DCCP") @@
    (41 :> "IPPROTO_IPV6") @@ (46 :> "IPPROTO_RSVP") @@ (47 :> "IPPROTO_GRE") @@
    (50 :> "IPPROTO_ESP") @@ (51 :> "IPPROTO_AH") @@ (92 :> "IPPROTO_MTP") @@
    (94 :> "IPPROTO_BEETPH") @@ (98 :> "IPPROTO_ENCAP") @@ (103 :> "IPPROTO_PIM") @@
    (108 :> "IPPROTO_COMP") @@ (132 :> "IPPROTO_SCTP") @@ (136 :> "IPPROTO_UDPLITE") @@
    (137 :> "IPPROTO_MPLS") @@ (255 :> "IPPROTO_RAW")

(* the protocol of a socket call: the name of the table, or the raw value as it is written *)
SocketProto(arguments) ==
    LET v == ArgValue(arguments, "protocol") IN
    IF v = None THEN None
    ELSE IF Val(v) \in DOMAIN IPProto THEN Some(IPProto[Val(v)])
    ELSE Some(ToString(Val(v)))

(* only the first row of the hostname linked *)
RECURSIVE LinkIpsFirstOnly(_, _, _, _, _)
LinkIpsFirstOnly(s, hostnodename, hostname, domains, j) ==
    IF j > Len(domains) THEN s
    ELSE IF domains[j].domain = hostname
         THEN LET s1 == AddIp(s, domains[j].ip) IN
              [s1 EXCEPT !.g = GraphAddEdge(s1.g, hostnodename, IpName(domains[j].ip))]
         ELSE LinkIpsFirstOnly(s, hostnodename, hostname, domains, j + 1)

(* self.domains[self.domains['domain'] == hostname], rows in table order *)
RECURSIVE LinkIpsFrom(_, _, _, _, _)
LinkIpsFrom(s, hostnodename, hostname, domains, j) ==
    IF j > Len(domains) THEN s
    ELSE IF domains[j].domain = hostname
         THEN LET s1 == AddIp(s, domains[j].ip) IN
              LinkIpsFrom([s1 EXCEPT !.g = GraphAddEdge(s1.g, hostnodename,
                                                        IpName(domains[j].ip))],
                          hostnodename, hostname, domains, j + 1)
         ELSE LinkIpsFrom(s, hostnodename, hostname, domains, j + 1)

(* the loop body of _add_dns_lookups; a DataFrame made of an empty        *)
(* domains list has no 'domain' column, and reading it raises KeyError    *)
DnsLookupStep(s, node, lookup, domains) ==
    LET hostname == FirstArgValue(lookup.arguments, "Name") IN
    IF hostname = None THEN s
    ELSE LET s1 == AddHost(s, Val(hostname))
             hostnodename == HostName(Val(hostname))
             s2 == [s1 EXCEPT !.g = GraphAddEdge(s1.g, node, hostnodename)]
         IN IF domains = <<>> THEN Raise(s2)
            ELSE LinkIpsFrom(s2, hostnodename, Val(hostname), domains, 1)

RECURSIVE AddDnsLookupsFrom(_, _, _, _, _)
AddDnsLookupsFrom(s, node, calls, domains, i) ==
    IF s.err \/ i > Len(calls) THEN s
    ELSE IF calls[i].api = "gethostbyname"
         THEN AddDnsLookupsFrom(DnsLookupStep(s, node, calls[i], domains),
                                node, calls, domains, i + 1)
         ELSE AddDnsLookupsFrom(s, node, calls, domains, i + 1)

(* _add_dns_lookups *)
AddDnsLookups(s, node, calls, domains) == AddDnsLookupsFrom(s, node, calls, domains, 1)

(* the arguments loop of one selected connect call; the TCPCONNECT block  *)
(* is inside the loop and runs at every argument once ipaddr is set.      *)
(* v holds the loop's variables ipaddr, socketid, port.                   *)
RECURSIVE ConnectArgsFrom(_, _, _, _, _)
ConnectArgsFrom(s, node, tcpconnect, v, k) ==
    IF k > Len(tcpconnect.arguments) THEN [s |-> s, socketid |-> v.socketid]
    ELSE LET arg == tcpconnect.arguments[k]
             v1 == [ipaddr |-> IF arg.name = "ip" THEN Some(arg.value) ELSE v.ipaddr,
                    socketid |-> IF arg.name = "socket" THEN Some(arg.value) ELSE v.socketid,
                    port |-> IF arg.name = "port" THEN Some(arg.value) ELSE v.port]
         IN IF v1.ipaddr = None
            THEN ConnectArgsFrom(s, node, tcpconnect, v1, k + 1)
            ELSE LET s1 == AddIp(s, Val(v1.ipaddr))
                     ipnodename == IpName(Val(v1.ipaddr))
                     nextid == NextId(s1)
                     connnodename == <<"TCP CONNECT", nextid>>
                     g1 == GraphAddNode(s1.g, connnodename, "TCPCONNECT")
                     md1 == DictSet(s1.md, connnodename,
                                    [node_type |-> "TCPCONNECT",
                                     timestamp |-> tcpconnect.timestamp,
                                     ip |-> Val(v1.ipaddr),
                                     socket |-> v1.socketid,
                                     port |-> v1.port])
                     g2 == GraphAddEdge(GraphAddEdge(g1, node, connnodename),
                                        connnodename, ipnodename)
                 IN ConnectArgsFrom([s1 EXCEPT !.md = md1, !.g = g2],
                                    node, tcpconnect, v1, k + 1)

(* the window with its upper end left out *)
InWindowOpenEnded(call, opentime, closetime) ==
    /\ call.api = "connect"
    /\ call.timestamp >= opentime
    /\ closetime # None => call.timestamp < Val(closetime)

(* calls[(api == 'connect') & (timestamp >= opentime) & (timestamp <= closetime)] *)
InWindow(call, opentime, closetime) ==
    /\ call.api = "connect"
    /\ call.timestamp >= opentime
    /\ closetime # None => call.timestamp <= Val(closetime)

(* _add_tcp_connects; socketid is the function's parameter, which the     *)
(* body of a plotted connect assigns to                                   *)
RECURSIVE AddTcpConnectsFrom(_, _, _, _, _, _, _)
AddTcpConnectsFrom(s, node, calls, socketid, opentime, closetime, i) ==
    IF i > Len(calls) THEN s
    ELSE IF ~InWindow(calls[i], opentime, closetime)
         THEN AddTcpConnectsFrom(s, node, calls, socketid, opentime, closetime, i + 1)
         ELSE LET PlotConnect == \E k \in 1..Len(calls[i].arguments) :
                                    /\ calls[i].arguments[k].name = "socket"
                                    /\ Some(calls[i].arguments[k].value) = socketid
              IN IF ~PlotConnect
                 THEN AddTcpConnectsFrom(s, node, calls, socketid,
                                         opentime, closetime, i + 1)
                 ELSE LET r == ConnectArgsFrom(s, node, calls[i],
                                               [ipaddr |-> None, socketid |-> None,
                                                port |-> None], 1)
                      IN AddTcpConnectsFrom(r.s, node, calls, r.socketid,
                                            opentime, closetime, i + 1)

AddTcpConnects(s, node, calls, socketid, opentime, closetime) ==
    AddTcpConnectsFrom(s, node, calls, socketid, opentime, closetime, 1)

(* the time of the last close call later than the open *)
RECURSIVE CloseTimeLastFrom(_, _, _)
CloseTimeLastFrom(calls, opentime, i) ==
    IF i < 1 THEN None
    ELSE IF calls[i].api = "closesocket" /\ calls[i].timestamp > opentime
         THEN Some(calls[i].timestamp)
         ELSE CloseTimeLastFrom(calls, opentime, i - 1)

CloseTimeLast(calls, opentime) == CloseTimeLastFrom(calls, opentime, Len(calls))

(* next(closesockets.iterrows())[1]['timestamp'], or None on StopIteration *)
RECURSIVE CloseTimeFrom(_, _, _)
CloseTimeFrom(calls, opentime, i) ==
    IF i > Len(calls) THEN None
    ELSE IF calls[i].api = "closesocket" /\ calls[i].timestamp > opentime
         THEN Some(calls[i].timestamp)
         ELSE CloseTimeFrom(calls, opentime, i + 1)

CloseTime(calls, opentime) == CloseTimeFrom(calls, opentime, 1)

(* the loop body of _add_sockets *)
SocketStep(s, node, calls, sock) ==
    LET socketid == ArgValue(sock.arguments, "socket")
        socketproto == SocketProto(sock.arguments)
        nextid == NextId(s)
        socketname == <<"SOCKET", nextid>>
        closetime == CloseTime(calls, sock.timestamp)
        g1 == GraphAddNode(s.g, socketname, "SOCKET")
        md1 == DictSet(s.md, socketname,
                       [node_type |-> "SOCKET", socket |-> Val(socketid),
                        protocol |-> socketproto, opentime |-> sock.timestamp,
                        closetime |-> closetime])
        g2 == GraphAddEdge(g1, node, socketname)
    IN IF socketid = None THEN s
       ELSE AddTcpConnects([s EXCEPT !.md = md1, !.g = g2], socketname, calls,
                           socketid, sock.timestamp, closetime)

RECURSIVE AddSocketsFrom(_, _, _, _)
AddSocketsFrom(s, node, calls, i) ==
    IF s.err \/ i > Len(calls) THEN s
    ELSE IF calls[i].api = "socket"
         THEN AddSocketsFrom(SocketStep(s, node, calls, calls[i]), node, calls, i + 1)
         ELSE AddSocketsFrom(s, node, calls, i + 1)

(* _add_sockets *)
AddSockets(s, node, calls) == AddSocketsFrom(s, node, calls, 1)

(* a network pass that uses up the call list of the node *)
NetworkActivityOfConsuming(s, node, domains) ==
    LET calls == s.md[node].calls
        s1 == AddDnsLookups(s, node, calls, domains)
        s2 == IF s1.err THEN s1 ELSE AddSockets(s1, node, calls)
    IN [s2 EXCEPT !.md[node].calls = <<>>]

(* the body of the loop of _add_network_activity for one PID node with calls *)
NetworkActivityOf(s, node, domains) ==
    LET calls == s.md[node].calls
        s1 == AddDnsLookups(s, node, calls, domains)
    IN IF s1.err THEN s1 ELSE AddSockets(s1, node, calls)

(* the nodes of the metadata copy whose loop body runs: PID nodes with calls *)
PidNodesWithCalls(md) ==
    {n \in DOMAIN md : md[n].node_type = "PID" /\ "calls" \in DOMAIN md[n]}

-----------------------------------------------------------------------------
(* Reports *)

Call(api, status, timestamp, arguments) ==
    [api |-> api, status |-> status, timestamp |-> timestamp, arguments |-> arguments]

Arg(name, value) == [name |-> name, value |-> value]

TreeEntry(pid, ppid, module_path, children) ==
    [pid |-> pid, parent_id |-> ppid, name |-> "proc", module_path |-> module_path,
     threads |-> <<>>, environ |-> <<>>, children |-> children]

Process(pid, calls) == [process_id |-> pid, first_seen |-> 1, calls |-> calls]

Report(processtree, processes, domains) ==
    [behavior |-> [processtree |-> processtree, processes |-> processes],
     network |-> [domains |-> domains]]

RECURSIVE SortedSeq(_)
SortedSeq(S) ==
    IF S = {} THEN <<>>
    ELSE LET m == CHOOSE x \in S : \A y \in S : x <= y
         IN <<m>> \o SortedSeq(S \ {m})

(* A forest of n entries is given in the order of the walk: entry i has   *)
(* the pid and parent_id lab[i] and is nested at depth dep[i]; its        *)
(* children are the entries one level deeper that follow it before the    *)
(* next entry at its own level or above.                                  *)
ChildrenOf(dep, i) ==
    {j \in (i + 1)..Len(dep) :
        dep[j] = dep[i] + 1 /\ \A k \in (i + 1)..(j - 1) : dep[k] > dep[i]}

RECURSIVE BuildEntry(_, _, _)
BuildEntry(lab, dep, i) ==
    LET kids == SortedSeq(ChildrenOf(dep, i)) IN
    TreeEntry(lab[i].pid, lab[i].parent_id, <<"Z">>,
              [k \in 1..Len(kids) |-> BuildEntry(lab, dep, kids[k])])

BuildForest(lab, dep) ==
    LET tops == SortedSeq({i \in 1..Len(dep) : dep[i] = 0}) IN
    [k \in 1..Len(tops) |-> BuildEntry(lab, dep, tops[k])]

Depths(n) ==
    {dep \in [1..n -> 0..(n - 1)] :
        dep[1] = 0 /\ \A i \in 1..(n - 1) : dep[i + 1] <= dep[i] + 1}

(* pids are numbered in the order of their first appearance in the walk;  *)
(* a parent id is the pid of some entry, or 0 for a process that is not   *)
(* in the tree                                                            *)
Labels(n) ==
    {lab \in [1..n -> [pid : 1..n, parent_id : 0..n]] :
        /\ lab[1].pid = 1
        /\ \A i \in 2..n : \E j \in 1..(i - 1) : lab[i].pid <= lab[j].pid + 1
        /\ \A i \in 1..n : \E j \in 1..n : lab[i].parent_id <= lab[j].pid}

OtherCall == Call("NtClose", TRUE, 1, <<>>)

(* Network calls.  Call lists are chronological: the first call has      *)
(* timestamp 1 and every later call the timestamp of the call before it   *)
(* or the next one.                                                       *)

Handles == {1, 2}

SocketCall(h) == Call("socket", TRUE, 0, <<Arg("socket", h), Arg("protocol", 6)>>)
CloseCall(h) == Call("closesocket", TRUE, 0, <<Arg("socket", h)>>)
ConnectCall(h) ==
    Call("connect", TRUE, 0, <<Arg("socket", h), Arg("ip", "10.0.0.1"), Arg("port", 80)>>)
ConnectNoIpCall(h) == Call("connect", TRUE, 0, <<Arg("socket", h), Arg("port", 80)>>)
ConnectIpFirstCall(h) ==
    Call("connect", TRUE, 0, <<Arg("ip", "10.0.0.1"), Arg("socket", h), Arg("port", 80)>>)

NetCalls ==
    {SocketCall(h) : h \in Handles} \cup {CloseCall(1)} \cup
    {ConnectCall(h) : h \in Handles} \cup {ConnectNoIpCall(h) : h \in Handles} \cup
    {ConnectIpFirstCall(1)}

Timestamps(n) ==
    {ts \in [1..n -> 1..n] : ts[1] = 1 /\ \A i \in 2..n : ts[i] \in {ts[i - 1], ts[i - 1] + 1}}

Stamped(calls, ts) == [i \in 1..Len(calls) |-> [calls[i] EXCEPT !.timestamp = ts[i]]]

(* File calls *)

PathA == <<"a">>
PathAZ == <<"a", "Z">>
PathEsc == <<"a", "\\", "Z">>

OnePathCalls ==
    {Call("NtCreateFile", TRUE, 0, <<Arg("FileName", p), Arg("ExistedBefore", "no")>>) :
        p \in {PathA, PathAZ, PathEsc}} \cup
    {Call("NtWriteFile", TRUE, 0, <<Arg("HandleName", p)>>) : p \in {PathA, PathAZ, PathEsc}} \cup
    {Call("NtReadFile", TRUE, 0, <<Arg("HandleName", p)>>) : p \in {PathA, PathAZ, PathEsc}} \cup
    {Call("DeleteFileW", TRUE, 0, <<Arg("FileName", p)>>) : p \in {PathA, PathAZ, PathEsc}}

TwoPathCalls ==
    {Call(api, TRUE, 0, <<Arg("ExistingFileName", e), Arg("NewFileName", n)>>) :
        api \in {"CopyFileA", "MoveFileWithProgressW"},
        e \in {PathA, PathAZ}, n \in {PathA, PathAZ}}

FileCalls == OnePathCalls \cup TwoPathCalls

(* ignorepaths and includepaths of the checked constructions *)
PathLists ==
    {<<<<>>, <<>>>>, <<<<>>, <<<<"Z">>>>>>, <<<<PathA>>, <<>>>>, <<<<PathAZ>>, <<<<"Z">>>>>>}

Positions(calls) == [i \in 1..Len(calls) |-> [calls[i] EXCEPT !.timestamp = i]]

-----------------------------------------------------------------------------
(* Construction: __init__ from the creation of the DiGraph on *)

Start(report, ignore, include, network, files) ==
    /\ jsonreportdata = report
    /\ ignorepaths = ignore
    /\ includepaths = include
    /\ plotnetwork = network
    /\ plotfiles = files
    /\ digraph = EmptyGraph
    /\ nodemetadata = <<>>
    /\ rootpid = None
    /\ pc = "processes"
    /\ stack = <<>>
    /\ procidx = 1
    /\ todo = {}
    /\ pending = <<>>

(* one process with sockets, closes and connects *)
InitNet ==
    \E n \in 1..MaxCalls : \E calls \in [1..n -> NetCalls], ts \in Timestamps(n) :
        Start(Report(<<TreeEntry(1, 0, <<"Z">>, <<>>)>>,
                     <<Process(1, Stamped(calls, ts))>>,
                     <<[domain |-> "evil.example", ip |-> "1.2.3.4"]>>),
              <<>>, <<>>, TRUE, TRUE)

(* process 1 with its child 2; the file calls are those of process 1, or  *)
(* of pid 0, the parent of process 1, which is not in the tree            *)
InitFile ==
    \E n \in 1..MaxFileCalls : \E calls \in [1..n -> FileCalls], lists \in PathLists,
                                  pid \in {0, 1} :
        Start(Report(<<TreeEntry(1, 0, <<"Z">>, <<TreeEntry(2, 1, <<"Z">>, <<>>)>>)>>,
                     <<Process(pid, Positions(calls))>>, <<>>),
              lists[1], lists[2], TRUE, TRUE)

(* process trees of every shape; the first process has one call that is   *)
(* neither file nor network activity                                      *)
InitTree ==
    \E n \in 1..MaxTree : \E lab \in Labels(n), dep \in Depths(n) :
        Start(Report(BuildForest(lab, dep), <<Process(lab[1].pid, <<OtherCall>>)>>, <<>>),
              <<>>, <<>>, TRUE, TRUE)

(* one process that creates files, looks hosts up and connects: the same  *)
(* file, host or address can come up in several calls and from several    *)
(* functions                                                              *)
LookupCall(host) == Call("gethostbyname", TRUE, 0, <<Arg("Name", host)>>)

ConnectTo(ip) ==
    Call("connect", TRUE, 0, <<Arg("socket", 1), Arg("ip", ip), Arg("port", 80)>>)

CreateCall(path) ==
    Call("NtCreateFile", TRUE, 0, <<Arg("FileName", path), Arg("ExistedBefore", "no")>>)

EntityCalls ==
    {CreateCall(p) : p \in {PathAZ, PathEsc}} \cup
    {LookupCall(h) : h \in {"evil.example", "good.example"}} \cup
    {SocketCall(1)} \cup {ConnectTo(ip) : ip \in {"10.0.0.1", "10.0.0.2"}}

EntityDomains ==
    <<[domain |-> "evil.example", ip |-> "10.0.0.1"],
      [domain |-> "evil.example", ip |-> "10.0.0.2"],
      [domain |-> "good.example", ip |-> "10.0.0.1"]>>

InitEntity ==
    \E n \in 1..MaxCalls : \E calls \in [1..n -> EntityCalls] :
        Start(Report(<<TreeEntry(1, 0, <<"Z">>, <<>>)>>,
                     <<Process(1, Positions(calls))>>, EntityDomains),
              <<>>, <<>>, TRUE, TRUE)

(* Process 1 with its child 2; the flat process list has an entry for pid *)
(* 1, for pid 0 (the parent of 1, not in the tree) or for pid 3 (not in   *)
(* the tree at all), whose calls can create the processes 2 and 3, and    *)
(* after it possibly an entry for pid 2                                   *)
CreateProcCall(pid, cmdline) ==
    Call("CreateProcessInternalW", TRUE, 0,
         <<Arg("ProcessId", pid)>> \o
         (IF cmdline = None THEN <<>> ELSE <<Arg("CommandLine", Val(cmdline))>>))

FailedCreateProcCall(pid, cmdline) == [CreateProcCall(pid, cmdline) EXCEPT !.status = FALSE]

JoinCalls ==
    {OtherCall, CreateCall(PathA), CreateProcCall(2, Some("cmd")),
     CreateProcCall(2, None), CreateProcCall(3, Some("cmd")),
     FailedCreateProcCall(2, Some("bad"))}

InitJoin ==
    \E n \in 1..MaxFileCalls : \E calls \in [1..n -> JoinCalls], pid \in {0, 1, 3},
                                  rest \in {<<>>, <<Process(2, <<OtherCall>>)>>} :
        Start(Report(<<TreeEntry(1, 0, <<"Z">>, <<TreeEntry(2, 1, <<"Z">>, <<>>)>>)>>,
                     <<Process(pid, Positions(calls))>> \o rest, EntityDomains),
              <<>>, <<>>, TRUE, TRUE)

(* one process that looks up a host with a row in the domains table and a *)
(* host without one; the table has that one row or is empty               *)
DnsCalls == {LookupCall("evil.example"), LookupCall("none.example"), CreateCall(PathA)}

InitDns ==
    \E n \in 1..MaxCalls : \E calls \in [1..n -> DnsCalls],
                              domains \in {<<>>, <<[domain |-> "evil.example",
                                                    ip |-> "10.0.0.1"]>>} :
        Start(Report(<<TreeEntry(1, 0, <<"Z">>, <<>>)>>,
                     <<Process(1, Positions(calls))>>, domains),
              <<>>, <<>>, TRUE, TRUE)

(* Process 1 with calls of every category and its child 2 with a file     *)
(* create that process 1 can make too, under every setting of the flags   *)
MixedCalls ==
    {CreateCall(PathA),
     Call("NtWriteFile", TRUE, 0, <<Arg("HandleName", PathA)>>),
     Call("NtReadFile", TRUE, 0, <<Arg("HandleName", PathA)>>),
     Call("CopyFileA", TRUE, 0, <<Arg("ExistingFileName", PathA), Arg("NewFileName", PathAZ)>>),
     Call("DeleteFileW", TRUE, 0, <<Arg("FileName", PathA)>>),
     Call("MoveFileWithProgressW", TRUE, 0,
          <<Arg("ExistingFileName", PathA), Arg("NewFileName", PathAZ)>>),
     SocketCall(1), ConnectTo("10.0.0.1"), LookupCall("evil.example")}

InitMixed ==
    \E n \in 1..MaxCalls : \E calls \in [1..n -> MixedCalls], network, files \in BOOLEAN :
        Start(Report(<<TreeEntry(1, 0, <<"Z">>, <<TreeEntry(2, 1, <<"Z">>, <<>>)>>)>>,
                     <<Process(1, Positions(calls)),
                       Process(2, Positions(<<CreateCall(PathA)>>))>>, EntityDomains),
              <<>>, <<>>, network, files)

(* Process 1 and its child 2, whose module paths are paths of the file    *)
(* calls; process 1 makes calls of the six categories, process 2 one call *)
ModuleCalls ==
    {CreateCall(PathA),
     Call("NtWriteFile", TRUE, 0, <<Arg("HandleName", PathAZ)>>),
     Call("NtReadFile", TRUE, 0, <<Arg("HandleName", PathA)>>),
     Call("CopyFileA", TRUE, 0, <<Arg("ExistingFileName", PathA), Arg("NewFileName", PathAZ)>>),
     Call("DeleteFileW", TRUE, 0, <<Arg("FileName", PathAZ)>>),
     Call("MoveFileWithProgressW", TRUE, 0,
          <<Arg("ExistingFileName", PathEsc), Arg("NewFileName", PathA)>>),
     OtherCall}

InitModule ==
    \E n \in 1..MaxFileCalls :
        \E calls \in [1..n -> ModuleCalls], other \in {CreateCall(PathAZ), OtherCall},
           m1, m2 \in {PathA, PathAZ} :
            Start(Report(<<TreeEntry(1, 0, m1, <<TreeEntry(2, 1, m2, <<>>)>>)>>,
                         <<Process(1, Positions(calls)), Process(2, <<other>>)>>, <<>>),
                  <<>>, <<>>, TRUE, TRUE)

(* One process whose file calls of the six categories succeed or fail *)
StatusCalls ==
    {Call(k.api, status, 0, k.arguments) :
        k \in {CreateCall(PathA),
               Call("NtWriteFile", TRUE, 0, <<Arg("HandleName", PathAZ)>>),
               Call("NtReadFile", TRUE, 0, <<Arg("HandleName", PathA)>>),
               Call("CopyFileW", TRUE, 0,
                    <<Arg("ExistingFileName", PathA), Arg("NewFileName", PathAZ)>>),
               Call("DeleteFileA", TRUE, 0, <<Arg("FileName", PathAZ)>>),
               Call("MoveFileA", TRUE, 0,
                    <<Arg("ExistingFileName", PathAZ), Arg("NewFileName", PathEsc)>>)},
        status \in BOOLEAN}

InitStatus ==
    \E n \in 1..MaxFileCalls : \E calls \in [1..n -> StatusCalls] :
        Start(Report(<<TreeEntry(1, 0, <<"Z">>, <<>>)>>,
                     <<Process(1, Positions(calls))>>, <<>>),
              <<>>, <<>>, TRUE, TRUE)

(* One process whose successful file calls lack a path argument *)
MissingCalls ==
    {CreateCall(PathA),
     Call("NtCreateFile", TRUE, 0, <<Arg("ExistedBefore", "no")>>),
     Call("NtWriteFile", TRUE, 0, <<>>),
     Call("DeleteFileW", TRUE, 0, <<>>),
     Call("CopyFileA", TRUE, 0, <<Arg("NewFileName", PathAZ)>>),
     Call("CopyFileA", TRUE, 0, <<Arg("ExistingFileName", PathA)>>),
     Call("MoveFileW", TRUE, 0, <<Arg("NewFileName", PathAZ)>>),
     Call("MoveFileW", TRUE, 0, <<Arg("ExistingFileName", PathA)>>)}

InitMissing ==
    \E n \in 1..MaxFileCalls : \E calls \in [1..n -> MissingCalls] :
        Start(Report(<<TreeEntry(1, 0, <<"Z">>, <<>>)>>,
                     <<Process(1, Positions(calls))>>, <<>>),
              <<>>, <<>>, TRUE, TRUE)

(* A program that constructs up to MaxRuns reports, one after the other:  *)
(* a report without process tree, or process 1 (parent 0) with the calls  *)
(* of pid 1 or of pid 3, which is not in the tree                         *)
RunCalls == {CreateCall(PathA), LookupCall("evil.example")}

RunReports ==
    {Report(<<>>, <<>>, EntityDomains)} \cup
    {Report(<<TreeEntry(1, 0, <<"Z">>, <<>>)>>, <<Process(pid, Positions(calls))>>,
            EntityDomains) :
        pid \in {1, 3}, calls \in UNION {[1..n -> RunCalls] : n \in 1..MaxFileCalls}}

Arguments(report) ==
    [report |-> report, ignorepaths |-> <<>>, includepaths |-> <<>>,
     plotnetwork |-> TRUE, plotfiles |-> TRUE]

InitRuns ==
    \E n \in 1..MaxRuns : \E reports \in [1..n -> RunReports] :
        /\ jsonreportdata = reports[1]
        /\ ignorepaths = <<>>
        /\ includepaths = <<>>
        /\ plotnetwork = TRUE
        /\ plotfiles = TRUE
        /\ digraph = EmptyGraph
        /\ nodemetadata = <<>>
        /\ rootpid = None
        /\ pc = "processes"
        /\ stack = <<>>
        /\ procidx = 1
        /\ todo = {}
        /\ pending = [i \in 1..(n - 1) |-> Arguments(reports[i + 1])]

input == <<jsonreportdata, ignorepaths, includepaths, plotnetwork, plotfiles>>

(* _add_all_processes up to the loop over the top-level entries *)
AddAllProcesses ==
    /\ pc = "processes"
    /\ LET processtree == jsonreportdata.behavior.processtree IN
       IF processtree = <<>>
       THEN /\ pc' = "error"
            /\ UNCHANGED <<rootpid, stack>>
       ELSE /\ rootpid' = Some(PidName(processtree[1].pid))
            /\ stack' = processtree
            /\ pc' = "tree"
    /\ UNCHANGED <<input, pending, digraph, nodemetadata, procidx, todo>>

(* the next call of _add_processes_recursive: a top-level entry, or a     *)
(* child of the entry visited last                                        *)
AddProcessesRecursive ==
    /\ pc = "tree"
    /\ stack # <<>>
    /\ LET s == VisitProcess(St(nodemetadata, digraph), Head(stack)) IN
       /\ nodemetadata' = s.md
       /\ digraph' = s.g
    /\ stack' = Head(stack).children \o Tail(stack)
    /\ pc' = IF stack' = <<>> THEN "metadata" ELSE "tree"
    /\ UNCHANGED <<input, pending, rootpid, procidx, todo>>

(* one iteration of the loop of _add_process_metadata *)
AddProcessMetadata ==
    /\ pc = "metadata"
    /\ procidx <= Len(jsonreportdata.behavior.processes)
    /\ LET s == ProcessMetadataStep(St(nodemetadata, digraph),
                                    jsonreportdata.behavior.processes[procidx]) IN
       /\ nodemetadata' = s.md
       /\ digraph' = s.g
       /\ pc' = IF s.err THEN "error" ELSE "metadata"
    /\ procidx' = procidx + 1
    /\ UNCHANGED <<input, pending, rootpid, stack, todo>>

(* the second pass left at any entry of the process list *)
ProcessesAddedEarly == pc = "metadata" /\ procidx > 1

ProcessesAdded == pc = "metadata" /\ procidx > Len(jsonreportdata.behavior.processes)

NetworkReached == IF plotnetwork THEN pc = "network" /\ todo = {} ELSE ProcessesAdded

FilesReached == IF plotfiles THEN pc = "files" /\ todo = {} ELSE NetworkReached

(* _add_network_activity up to its loop: the table of domains and the copy of the metadata *)
AddNetworkActivity ==
    /\ ProcessesAdded
    /\ plotnetwork
    /\ pc' = "network"
    /\ todo' = PidNodesWithCalls(nodemetadata)
    /\ UNCHANGED <<input, pending, digraph, nodemetadata, rootpid, stack, procidx>>

(* one iteration of the loop of _add_network_activity *)
AddNetworkNode(node) ==
    /\ pc = "network"
    /\ node \in todo
    /\ LET s == NetworkActivityOf(St(nodemetadata, digraph), node,
                                  jsonreportdata.network.domains) IN
       /\ nodemetadata' = s.md
       /\ digraph' = s.g
       /\ pc' = IF s.err THEN "error" ELSE "network"
    /\ todo' = todo \ {node}
    /\ UNCHANGED <<input, pending, rootpid, stack, procidx>>

(* the file activity added whatever plotfiles says *)
AddFileActivityUngated ==
    /\ NetworkReached
    /\ pc' = "files"
    /\ todo' = PidNodesWithCalls(nodemetadata)
    /\ UNCHANGED <<input, pending, digraph, nodemetadata, rootpid, stack, procidx>>

(* _add_file_activity up to its loop *)
AddFileActivity ==
    /\ NetworkReached
    /\ plotfiles
    /\ pc' = "files"
    /\ todo' = PidNodesWithCalls(nodemetadata)
    /\ UNCHANGED <<input, pending, digraph, nodemetadata, rootpid, stack, procidx>>

(* one iteration of the loop of _add_file_activity *)
AddFileNode(node) ==
    /\ pc = "files"
    /\ node \in todo
    /\ LET s == FileActivityOf(St(nodemetadata, digraph), node,
                               ignorepaths, includepaths) IN
       /\ nodemetadata' = s.md
       /\ digraph' = s.g
       /\ pc' = IF s.err THEN "error" ELSE "files"
    /\ todo' = todo \ {node}
    /\ UNCHANGED <<input, pending, rootpid, stack, procidx>>

(* __init__ returns *)
Finish ==
    /\ FilesReached
    /\ pc' = "done"
    /\ todo' = {}
    /\ UNCHANGED <<input, pending, digraph, nodemetadata, rootpid, stack, procidx>>

(* the next constructor call of the program, after the one before it has  *)
(* returned or raised: a new instance with its own digraph; nodemetadata  *)
(* is an attribute of the class, which __init__ does not assign           *)
Construct ==
    /\ pc \in {"done", "error"}
    /\ pending # <<>>
    /\ jsonreportdata' = Head(pending).report
    /\ ignorepaths' = Head(pending).ignorepaths
    /\ includepaths' = Head(pending).includepaths
    /\ plotnetwork' = Head(pending).plotnetwork
    /\ plotfiles' = Head(pending).plotfiles
    /\ digraph' = EmptyGraph
    /\ rootpid' = None
    /\ pc' = "processes"
    /\ stack' = <<>>
    /\ procidx' = 1
    /\ todo' = {}
    /\ pending' = Tail(pending)
    /\ UNCHANGED nodemetadata

Next ==
    \/ AddAllProcesses
    \/ AddProcessesRecursive
    \/ AddProcessMetadata
    \/ AddNetworkActivity
    \/ \E node \in todo : AddNetworkNode(node)
    \/ AddFileActivity
    \/ \E node \in todo : AddFileNode(node)
    \/ Finish

Init == InitTree \/ InitNet \/ InitFile \/ InitEntity \/ InitJoin \/ InitDns \/ InitMixed
            \/ InitModule \/ InitStatus \/ InitMissing

Spec == Init /\ [][Next]_vars

SpecTree == InitTree /\ [][Next]_vars

SpecNet == InitNet /\ [][Next]_vars

SpecFile == InitFile /\ [][Next]_vars

SpecEntity == InitEntity /\ [][Next]_vars

SpecJoin == InitJoin /\ [][Next]_vars

SpecDns == InitDns /\ [][Next]_vars

SpecMixed == InitMixed /\ [][Next]_vars

SpecModule == InitModule /\ [][Next]_vars

SpecStatus == InitStatus /\ [][Next]_vars

SpecMissing == InitMissing /\ [][Next]_vars

(* the program that makes several constructions *)
NextRuns == Next \/ Construct

SpecRuns == InitRuns /\ [][NextRuns]_vars

-----------------------------------------------------------------------------
(* What the claims speak about *)

Processes == jsonreportdata.behavior.processes

TypeOf(n) == digraph.node[n]

NodesOfType(t) == {n \in DOMAIN digraph.node : digraph.node[n] = t}

Successors(n) == {e[2] : e \in {d \in digraph.edge : d[1] = n}}

Predecessors(n) == {e[1] : e \in {d \in digraph.edge : d[2] = n}}

(* the SOCKET nodes made for process p, and the calls of p *)
SocketsOf(p) == Successors(PidName(p.process_id)) \cap NodesOfType("SOCKET")

ConnectsOf(socketnode) == Successors(socketnode) \cap NodesOfType("TCPCONNECT")

IsConnect(call) == call.api = "connect"

Handle(call) == ArgValue(call.arguments, "socket")

Address(call) == ArgValue(call.arguments, "ip")

(* connect call k has socket s's handle and lies in the closed window of s *)
Qualifies(s, k) ==
    /\ Handle(k) = Some(nodemetadata[s].socket)
    /\ nodemetadata[s].opentime <= k.timestamp
    /\ nodemetadata[s].closetime # None => k.timestamp <= Val(nodemetadata[s].closetime)

(* TCPCONNECT node n records call k *)
Records(n, k) ==
    /\ nodemetadata[n].timestamp = k.timestamp
    /\ nodemetadata[n].socket = Handle(k)

RecordsAddress(n, k) == Records(n, k) /\ Some(nodemetadata[n].ip) = Address(k)

(* TCPCONNECT node n comes from call k: its time and address, and its     *)
(* handle once the loop over the arguments has read it                    *)
ComesFrom(n, k) ==
    /\ nodemetadata[n].timestamp = k.timestamp
    /\ Some(nodemetadata[n].ip) = Address(k)
    /\ nodemetadata[n].socket \in {None, Handle(k)}

(* C1 as stated: for every SOCKET node s of a process and every connect   *)
(* call k of that process, a TCPCONNECT node linked from s exists for k   *)
(* if and only if k has the handle of s and a timestamp in [open, close]  *)
(* (or [open, +oo) when s has no close time).                             *)
C1_AsStated ==
    pc = "done" =>
        \A i \in 1..Len(Processes) : \A s \in SocketsOf(Processes[i]) :
            \A j \in 1..Len(Processes[i].calls) :
                LET k == Processes[i].calls[j] IN
                IsConnect(k) =>
                    ((\E n \in ConnectsOf(s) : Records(n, k)) <=> Qualifies(s, k))

(* C1 amended: the same equivalence for the connect calls that carry an   *)
(* address argument, every connect call carrying one socket argument; and *)
(* every TCPCONNECT node linked from s comes from such a call of the      *)
(* process with the handle of s inside the window of s.                   *)
C1_Windowing ==
    pc = "done" =>
        \A i \in 1..Len(Processes) : \A s \in SocketsOf(Processes[i]) :
            /\ \A j \in 1..Len(Processes[i].calls) :
                   LET k == Processes[i].calls[j] IN
                   IsConnect(k) /\ Address(k) # None =>
                       ((\E n \in ConnectsOf(s) : RecordsAddress(n, k)) <=> Qualifies(s, k))
            /\ \A n \in ConnectsOf(s) :
                   \E j \in 1..Len(Processes[i].calls) :
                       LET k == Processes[i].calls[j] IN
                       /\ IsConnect(k)
                       /\ ComesFrom(n, k)
                       /\ Qualifies(s, k)

(* a socket with a close time and a connect call on its handle, made at   *)
(* the very close time, that is linked to it                              *)
C1_Witness ==
    /\ pc = "done"
    /\ \E s \in SocketsOf(Processes[1]) :
           /\ nodemetadata[s].closetime # None
           /\ nodemetadata[s].opentime < Val(nodemetadata[s].closetime)
           /\ \E n \in ConnectsOf(s) :
                  nodemetadata[n].timestamp = Val(nodemetadata[s].closetime)

(* C2 as stated: each connect call selected for a socket and carrying an  *)
(* address yields exactly one TCPCONNECT node: the TCPCONNECT nodes       *)
(* linked from a socket are as many as the selected calls, and each has   *)
(* exactly one edge from a socket and one edge to the IP node of its      *)
(* address.                                                               *)
C2_OneNodePerConnect ==
    pc = "done" =>
        \A i \in 1..Len(Processes) : \A s \in SocketsOf(Processes[i]) :
            /\ Cardinality(ConnectsOf(s)) =
                   Cardinality({j \in 1..Len(Processes[i].calls) :
                                   /\ IsConnect(Processes[i].calls[j])
                                   /\ Address(Processes[i].calls[j]) # None
                                   /\ Qualifies(s, Processes[i].calls[j])})
            /\ \A n \in ConnectsOf(s) :
                   /\ Predecessors(n) = {s}
                   /\ Successors(n) = {IpName(nodemetadata[n].ip)}

(* the path filter as C3 and C5 word it: an expression is found in a path *)
(* when a case-insensitive search of the expression inside the path hits  *)
FoundIn(expressions, path) ==
    \E i \in 1..Len(expressions) : ReSearch(expressions[i], path)

Rejects(path) == FoundIn(ignorepaths, path) /\ ~FoundIn(includepaths, path)

CheckedPaths == {PathA, PathAZ, PathEsc}

(* the file calls of the six categories, and the event nodes made for a   *)
(* call (the calls of a process have pairwise distinct timestamps)        *)
FileEventTypes ==
    {"FILECREATE", "FILEWRITE", "FILEREAD", "FILECOPY", "FILEDELETE", "FILEMOVE"}

EventsOf(k) ==
    {n \in DOMAIN nodemetadata :
        /\ nodemetadata[n].node_type \in FileEventTypes
        /\ nodemetadata[n].timestamp = k.timestamp}

IsOnePath(k) ==
    \/ Selected(k, CreateApis) \/ Selected(k, WriteApis)
    \/ Selected(k, ReadApis) \/ Selected(k, DeleteApis)

IsTwoPath(k) == Selected(k, CopyApis) \/ Selected(k, MoveApis)

PathArgs == {"FileName", "HandleName", "ExistingFileName", "NewFileName"}

PathsOf(k) ==
    {k.arguments[a].value : a \in {b \in 1..Len(k.arguments) : k.arguments[b].name \in PathArgs}}

(* C3 as stated: with the ignore and include lists of the construction,   *)
(* the filter the file functions apply rejects a path if and only if some *)
(* ignore pattern is found in the path and no include pattern is found in *)
(* it, and admits it otherwise.                                           *)
C3_PathFilter ==
    \A p \in CheckedPaths :
        /\ PathCheck(Some(p), ignorepaths, includepaths) = "drop" <=> Rejects(p)
        /\ PathCheck(Some(p), ignorepaths, includepaths) = "pass" <=> ~Rejects(p)

(* C4 as stated: a successful copy or move call one of whose two paths    *)
(* the filter of the file functions rejects leaves no event node.         *)
C4_BothPathsPass ==
    pc = "done" =>
        \A i \in 1..Len(Processes) : \A j \in 1..Len(Processes[i].calls) :
            LET k == Processes[i].calls[j] IN
            /\ IsTwoPath(k)
            /\ \E p \in PathsOf(k) : PathCheck(Some(p), ignorepaths, includepaths) = "drop"
            => EventsOf(k) = {}

(* C5 as stated: the construction does not fail, and a successful call of *)
(* one of the six categories one of whose paths has an ignore pattern and *)
(* no include pattern found in it leaves no event node.                   *)
C5_RejectedProducesNothing ==
    /\ pc # "error"
    /\ pc = "done" =>
           \A i \in 1..Len(Processes) : \A j \in 1..Len(Processes[i].calls) :
               LET k == Processes[i].calls[j] IN
               /\ IsOnePath(k) \/ IsTwoPath(k)
               /\ \E p \in PathsOf(k) : Rejects(p)
               => EventsOf(k) = {}

TypeTags ==
    {"PID", "FILE", "HOST", "IP", "FILECREATE", "FILEWRITE", "FILEREAD", "FILECOPY",
     "FILEDELETE", "FILEMOVE", "SOCKET", "TCPCONNECT"}

(* C10 as stated: in every state, every node of the directed graph        *)
(* carries a type tag of the closed set.                                  *)
C10_TypeTags ==
    \A n \in DOMAIN digraph.node : TypeOf(n) \in TypeTags

-----------------------------------------------------------------------------
(* Process trees of the report, as the claims describe them *)

ProcessTree == jsonreportdata.behavior.processtree

(* the entries in the order in which _add_processes_recursive visits them *)
RECURSIVE Walk(_)
Walk(forest) ==
    IF forest = <<>> THEN <<>>
    ELSE <<Head(forest)>> \o Walk(Head(forest).children) \o Walk(Tail(forest))

Entries == Walk(ProcessTree)

DistinctPids ==
    \A i, j \in 1..Len(Entries) : Entries[i].pid = Entries[j].pid => i = j

(* each child's parent_id is the pid of the entry it is nested under *)
NestingRespected ==
    \A i \in 1..Len(Entries) : \A c \in 1..Len(Entries[i].children) :
        Entries[i].children[c].parent_id = Entries[i].pid

NestedEdges ==
    UNION {{<<PidName(Entries[i].pid), PidName(Entries[i].children[c].pid)>> :
               c \in 1..Len(Entries[i].children)} : i \in 1..Len(Entries)}

PidNodes == {PidName(Entries[i].pid) : i \in 1..Len(Entries)}

(* a process tree: one top-level entry, distinct pids, nesting by parent_id *)
OneTree == Len(ProcessTree) = 1 /\ DistinctPids /\ NestingRespected

RootNotOwnParent == Entries[1].parent_id # Entries[1].pid

(* N process nodes, N-1 parent->child edges forming the tree of the       *)
(* report, and no edge into the root                                      *)
TreeGraph ==
    /\ DOMAIN digraph.node = PidNodes
    /\ \A n \in PidNodes : TypeOf(n) = "PID"
    /\ Cardinality(DOMAIN digraph.node) = Len(Entries)
    /\ digraph.edge = NestedEdges
    /\ Cardinality(digraph.edge) = Len(Entries) - 1
    /\ Predecessors(PidName(Entries[1].pid)) = {}

(* C7 as stated: a process tree of N processes (distinct pids, each       *)
(* child's parent_id the pid of the entry it is nested under) with no     *)
(* file or network activity yields N process nodes and N-1 parent->child  *)
(* edges forming a tree, and the root has no incoming edge.               *)
C7_AsStated == pc = "done" /\ OneTree => TreeGraph

(* C7 amended: the same for a process tree whose root entry does not      *)
(* name itself as its parent.                                             *)
C7_TreeOfN == pc = "done" /\ OneTree /\ RootNotOwnParent => TreeGraph

(* a finished construction from a tree of three processes, a child and a  *)
(* grandchild under the root                                              *)
C7_Witness ==
    /\ pc = "done"
    /\ OneTree
    /\ RootNotOwnParent
    /\ Len(Entries) = 3
    /\ Len(Entries[2].children) = 1
    /\ Cardinality(digraph.edge) = 2

(* the edges between process nodes, and the nodes reached from a node     *)
(* along them                                                             *)
IsPidNode(n) == n[1] = "PID"

ProcessEdges == {e \in digraph.edge : IsPidNode(e[1]) /\ IsPidNode(e[2])}

ProcessNodes == {n \in DOMAIN digraph.node : IsPidNode(n)}

ProcessParents(n) == {e[1] : e \in {d \in ProcessEdges : d[2] = n}}

RECURSIVE ReachedFrom(_)
ReachedFrom(S) ==
    LET T == S \cup {e[2] : e \in {d \in ProcessEdges : d[1] \in S}} IN
    IF T = S THEN S ELSE ReachedFrom(T)

WalkDone == pc \in {"metadata", "network", "files", "done"}

(* the process->process edges form one tree rooted at the first top-level *)
(* entry, every process node having at most one incoming edge             *)
SingleTree ==
    LET root == PidName(ProcessTree[1].pid) IN
    /\ rootpid = Some(root)
    /\ ProcessParents(root) = {}
    /\ \A n \in ProcessNodes : Cardinality(ProcessParents(n)) <= 1
    /\ ReachedFrom({root}) = ProcessNodes

(* every entry but the first names as its parent an entry that the walk   *)
(* visits before it                                                       *)
ParentsVisitedEarlier ==
    \A i \in 2..Len(Entries) : \E j \in 1..(i - 1) : Entries[j].pid = Entries[i].parent_id

(* C9 as stated: after the tree walk of any report, the process->process  *)
(* edges form a single tree rooted at the node of the first top-level     *)
(* entry, and every process node has at most one incoming such edge.      *)
C9_AsStated == WalkDone => SingleTree

(* C9 amended: the same for the reports with distinct pids whose first    *)
(* top-level entry is not its own parent and whose other entries each     *)
(* name as parent an entry visited earlier in the walk.                   *)
C9_SingleTree ==
    WalkDone /\ DistinctPids /\ RootNotOwnParent /\ ParentsVisitedEarlier => SingleTree

(* the walk of such a report with two top-level entries, the second the   *)
(* child of the first, and a third process                                *)
C9_Witness ==
    /\ WalkDone
    /\ DistinctPids /\ RootNotOwnParent /\ ParentsVisitedEarlier
    /\ Len(ProcessTree) >= 2
    /\ Len(Entries) = 3
    /\ Cardinality(ProcessEdges) = 2

(* the parent of the first top-level entry is no entry of the tree *)
RootParentAbsent ==
    \A i \in 1..Len(Entries) : Entries[i].pid # ProcessTree[1].parent_id

Placeholder == PidName(ProcessTree[1].parent_id)

RootNode == PidName(ProcessTree[1].pid)

(* the tree pid 1 (parent 0) with child pid 2, and one successful file    *)
(* create by pid 1, nothing being filtered                                *)
CreateScenario ==
    /\ ProcessTree = <<TreeEntry(1, 0, <<"Z">>, <<TreeEntry(2, 1, <<"Z">>, <<>>)>>)>>
    /\ ignorepaths = <<>>
    /\ Len(Processes) = 1
    /\ Processes[1].process_id = 1
    /\ Len(Processes[1].calls) = 1
    /\ Selected(Processes[1].calls[1], CreateApis)

CreatedFile == FileNodeName(Val(ArgValue(Processes[1].calls[1].arguments, "FileName")))

(* C8 as stated: a parent pid of the root that is no entry of the tree    *)
(* gets a placeholder node in the graph and the edge placeholder->root;   *)
(* in the scenario the graph has the nodes PID 1, PID 2, PID 0, one FILE  *)
(* and one FILECREATE node and exactly the edges PID 0->PID 1,            *)
(* PID 1->PID 2, PID 1->FILECREATE, FILECREATE->FILE.                     *)
C8_AsStated ==
    /\ WalkDone /\ RootParentAbsent =>
           /\ Placeholder \in DOMAIN digraph.node
           /\ <<Placeholder, RootNode>> \in digraph.edge
    /\ pc = "done" /\ CreateScenario =>
           \E e \in NodesOfType("FILECREATE") :
               /\ DOMAIN digraph.node =
                      {PidName(0), PidName(1), PidName(2), CreatedFile, e}
               /\ digraph.edge =
                      {<<PidName(0), PidName(1)>>, <<PidName(1), PidName(2)>>,
                       <<PidName(1), e>>, <<e, CreatedFile>>}

(* C8 amended: the placeholder is an entry of the metadata table only     *)
(* (type PID, the root among its children, empty command line): at the    *)
(* end of the tree walk it is no graph node, and the edge                 *)
(* placeholder->root is never made; in the scenario the graph has the     *)
(* nodes PID 1, PID 2, one FILE and one FILECREATE node and exactly the   *)
(* edges PID 1->PID 2, PID 1->FILECREATE, FILECREATE->FILE.               *)
C8_Placeholder ==
    /\ WalkDone /\ RootParentAbsent =>
           /\ Placeholder \in DOMAIN nodemetadata
           /\ nodemetadata[Placeholder].node_type = "PID"
           /\ \E c \in 1..Len(nodemetadata[Placeholder].children) :
                  nodemetadata[Placeholder].children[c] = RootNode
           /\ <<Placeholder, RootNode>> \notin digraph.edge
    /\ pc = "metadata" /\ procidx = 1 /\ RootParentAbsent =>
           /\ Placeholder \notin DOMAIN digraph.node
           /\ nodemetadata[Placeholder].cmdline = ""
    /\ pc = "done" /\ CreateScenario =>
           \E e \in NodesOfType("FILECREATE") :
               /\ DOMAIN digraph.node = {PidName(1), PidName(2), CreatedFile, e}
               /\ TypeOf(PidName(1)) = "PID" /\ TypeOf(PidName(2)) = "PID"
               /\ TypeOf(CreatedFile) = "FILE"
               /\ digraph.edge =
                      {<<PidName(1), PidName(2)>>, <<PidName(1), e>>, <<e, CreatedFile>>}

(* the finished construction of the scenario, the file create recorded *)
C8_Witness ==
    /\ pc = "done"
    /\ CreateScenario
    /\ RootParentAbsent
    /\ NodesOfType("FILECREATE") # {}
    /\ Placeholder \in DOMAIN nodemetadata

-----------------------------------------------------------------------------
(* Entities: the FILE, HOST and IP nodes and the raw string each stands for *)

EntityTypes == {"FILE", "HOST", "IP"}

RawOf(n) ==
    CASE TypeOf(n) = "FILE" -> nodemetadata[n].file
      [] TypeOf(n) = "HOST" -> nodemetadata[n].host
      [] OTHER -> nodemetadata[n].ip

RawsOf(nodes) == {RawOf(n) : n \in nodes}

CallsOfApi(api) ==
    {Processes[1].calls[j] : j \in {i \in 1..Len(Processes[1].calls) :
                                       Processes[1].calls[i].api = api}}

DomainRows == jsonreportdata.network.domains

(* C6: for each of the kinds file, host and address, at most one node     *)
(* stands for a raw string, whichever function asked for it first, and    *)
(* every reference to an entity leads to the node of exactly its raw      *)
(* string: a file event to the FILE node of its path, a TCPCONNECT to the *)
(* IP node of its address; at the end the FILE and HOST nodes stand for   *)
(* exactly the created paths and looked-up names, and a HOST node leads   *)
(* to the IP nodes of exactly the addresses the domains table gives it.   *)
C6_EntityIdentity ==
    /\ \A t \in EntityTypes : \A n, m \in NodesOfType(t) : RawOf(n) = RawOf(m) => n = m
    /\ \A e \in DOMAIN nodemetadata :
           nodemetadata[e].node_type \in FileEventTypes /\ "file" \in DOMAIN nodemetadata[e]
           => RawsOf(Successors(e) \cap NodesOfType("FILE")) = {nodemetadata[e].file}
    /\ \A c \in NodesOfType("TCPCONNECT") :
           RawsOf(Successors(c) \cap NodesOfType("IP")) = {nodemetadata[c].ip}
    /\ pc = "done" =>
           /\ RawsOf(NodesOfType("FILE")) =
                  {Val(ArgValue(k.arguments, "FileName")) : k \in CallsOfApi("NtCreateFile")}
           /\ RawsOf(NodesOfType("HOST")) =
                  {Val(ArgValue(k.arguments, "Name")) : k \in CallsOfApi("gethostbyname")}
           /\ \A h \in NodesOfType("HOST") :
                  RawsOf(Successors(h)) =
                      {DomainRows[r].ip : r \in {q \in 1..Len(DomainRows) :
                                                   DomainRows[q].domain = RawOf(h)}}

(* a finished construction in which two create events share the FILE node *)
(* of their path, next to the FILE node of another path whose name        *)
(* differs only by the escaping                                           *)
C6_Witness ==
    /\ pc = "done"
    /\ Cardinality(NodesOfType("FILE")) = 2
    /\ \E f \in NodesOfType("FILE") : Cardinality(Predecessors(f)) = 2

-----------------------------------------------------------------------------
(* DNS lookups *)

AddressesOf(host) ==
    {DomainRows[r].ip : r \in {q \in 1..Len(DomainRows) : DomainRows[q].domain = host}}

HostNodesOf(host) == {n \in NodesOfType("HOST") : nodemetadata[n].host = host}

(* C11: in the finished graph, for every gethostbyname call of a process  *)
(* naming host h there is one HOST node for h, with an edge from the      *)
(* process to it, and its successors are the IP nodes of exactly the      *)
(* addresses that the rows of the domains table give for h.               *)
C11_DnsCorrelation ==
    pc = "done" =>
        \A i \in 1..Len(Processes) : \A j \in 1..Len(Processes[i].calls) :
            LET k == Processes[i].calls[j]
                h == FirstArgValue(k.arguments, "Name")
            IN k.api = "gethostbyname" /\ h # None =>
                   /\ Cardinality(HostNodesOf(Val(h))) = 1
                   /\ \A n \in HostNodesOf(Val(h)) :
                          /\ <<PidName(Processes[i].process_id), n>> \in digraph.edge
                          /\ Successors(n) = {IpName(a) : a \in AddressesOf(Val(h))}
                          /\ Successors(n) \subseteq NodesOfType("IP")

(* a finished construction with a lookup of a host of two addresses and a *)
(* lookup of a host that shares one of them                               *)
C11_Witness ==
    /\ pc = "done"
    /\ \E n, m \in NodesOfType("HOST") :
           /\ Cardinality(Successors(n)) = 2
           /\ Cardinality(Successors(m)) = 1
           /\ Successors(m) \subseteq Successors(n)
           /\ <<PidName(1), n>> \in digraph.edge
           /\ <<PidName(1), m>> \in digraph.edge

-----------------------------------------------------------------------------
(* The joins of the flat process list onto the process nodes *)

TreePids == {Entries[i].pid : i \in 1..Len(Entries)}

IsCreateProc(k) == k.api = "CreateProcessInternalW"

ChildPid(k) == ArgValue(k.arguments, "ProcessId")

(* a creation call names a child pid that has no entry in the metadata    *)
(* table after the tree walk                                              *)
Dangling(k) ==
    /\ IsCreateProc(k)
    /\ ChildPid(k) # None
    /\ Val(ChildPid(k)) \notin TreePids \cup {Entries[i].parent_id : i \in 1..Len(Entries)}

AllCalls == UNION {{Processes[i].calls[j] : j \in 1..Len(Processes[i].calls)} :
                      i \in 1..Len(Processes)}

ListedInTree == \A i \in 1..Len(Processes) : Processes[i].process_id \in TreePids

HasCalls(i) ==
    LET n == PidName(Processes[i].process_id) IN
    /\ n \in DOMAIN nodemetadata
    /\ "calls" \in DOMAIN nodemetadata[n]
    /\ nodemetadata[n].calls = Processes[i].calls
    /\ nodemetadata[n].first_seen = Processes[i].first_seen

(* C12 as stated: when every entry of the process list is a process of    *)
(* the tree, a creation call that names a child pid without process node  *)
(* does not abort the construction, and in the finished construction      *)
(* every process has its call list and every child of the tree named by a *)
(* creation call has its command line.                                    *)
C12_BestEffortCmdline ==
    ListedInTree =>
        /\ pc # "error"
        /\ pc = "done" =>
               /\ \A i \in 1..Len(Processes) : HasCalls(i)
               /\ \A k \in AllCalls :
                      IsCreateProc(k) /\ ChildPid(k) # None /\ Val(ChildPid(k)) \in TreePids
                      => "cmdline" \in DOMAIN nodemetadata[PidName(Val(ChildPid(k)))]

(* C13 as stated: when no creation call names a child without node, a     *)
(* process-list entry whose pid was not visited in the tree does not      *)
(* abort the construction and leaves no untyped graph node, and in the    *)
(* finished construction every listed process of the tree has its         *)
(* first_seen and call list.                                              *)
C13_ProcessOutsideTree ==
    (\A k \in AllCalls : ~Dangling(k)) =>
        /\ pc # "error"
        /\ \A n \in DOMAIN digraph.node : TypeOf(n) # NoType
        /\ pc = "done" =>
               \A i \in 1..Len(Processes) :
                   Processes[i].process_id \in TreePids => HasCalls(i)

(* C14 as stated: a gethostbyname call whose host has no row in the       *)
(* domains table, the empty table included, does not abort the            *)
(* construction; in the finished graph its HOST node has the edge from    *)
(* the process and no edge to an IP node, and the other calls of the      *)
(* process have their HOST nodes and file events.                         *)
C14_UnresolvedHost ==
    /\ pc # "error"
    /\ pc = "done" =>
           \A i \in 1..Len(Processes) : \A j \in 1..Len(Processes[i].calls) :
               LET k == Processes[i].calls[j]
                   h == FirstArgValue(k.arguments, "Name")
               IN /\ k.api = "gethostbyname" /\ h # None =>
                         /\ Cardinality(HostNodesOf(Val(h))) = 1
                         /\ \A n \in HostNodesOf(Val(h)) :
                                /\ <<PidName(Processes[i].process_id), n>> \in digraph.edge
                                /\ AddressesOf(Val(h)) = {} => Successors(n) = {}
                  /\ IsOnePath(k) => EventsOf(k) # {}

-----------------------------------------------------------------------------
(* A construction as one function of the constructor's arguments and of   *)
(* the metadata table it finds: what the actions do step by step, to the  *)
(* end.  The loops over the copy of the table take the nodes in some      *)
(* fixed order.                                                           *)

RECURSIVE WalkAll(_, _)
WalkAll(s, calls) ==
    IF calls = <<>> THEN s
    ELSE WalkAll(VisitProcess(s, Head(calls)), Head(calls).children \o Tail(calls))

RECURSIVE MetadataAll(_, _, _)
MetadataAll(s, processes, i) ==
    IF s.err \/ i > Len(processes) THEN s
    ELSE MetadataAll(ProcessMetadataStep(s, processes[i]), processes, i + 1)

RECURSIVE NetworkAll(_, _, _)
NetworkAll(s, nodes, domains) ==
    IF s.err \/ nodes = {} THEN s
    ELSE LET node == CHOOSE n \in nodes : TRUE IN
         NetworkAll(NetworkActivityOf(s, node, domains), nodes \ {node}, domains)

RECURSIVE FilesAll(_, _, _, _)
FilesAll(s, nodes, ignore, include) ==
    IF s.err \/ nodes = {} THEN s
    ELSE LET node == CHOOSE n \in nodes : TRUE IN
         FilesAll(FileActivityOf(s, node, ignore, include), nodes \ {node}, ignore, include)

Build(table, report, ignore, include, network, files) ==
    LET tree == report.behavior.processtree
        walked == WalkAll(St(table, EmptyGraph), tree)
        joined == MetadataAll(walked, report.behavior.processes, 1)
        net == IF network /\ ~joined.err
               THEN NetworkAll(joined, PidNodesWithCalls(joined.md), report.network.domains)
               ELSE joined
        fil == IF files /\ ~net.err
               THEN FilesAll(net, PidNodesWithCalls(net.md), ignore, include)
               ELSE net
    IN IF tree = <<>> THEN Raise(St(table, EmptyGraph)) ELSE fil

(* the construction of the present arguments by a program that has made   *)
(* no other construction                                                  *)
Alone == Build(<<>>, jsonreportdata, ignorepaths, includepaths, plotnetwork, plotfiles)

(* C15 as stated: when a construction has ended in an error, the metadata *)
(* table, which the caller and every later construction of the program    *)
(* read, holds no entry.                                                  *)
C15_AllOrNothing == pc = "error" => nodemetadata = <<>>

(* C18 as stated: the graph and the metadata table of a finished          *)
(* construction are those of the same construction made alone, whatever   *)
(* the program constructed before.                                        *)
C18_Independent ==
    pc = "done" => digraph = Alone.g /\ nodemetadata = Alone.md

-----------------------------------------------------------------------------
(* Flags and events *)

NetworkTypes == {"HOST", "IP", "SOCKET", "TCPCONNECT"}

(* the graph that the tree walk alone makes of the report's process tree *)
Walked == WalkAll(St(<<>>, EmptyGraph), ProcessTree).g

(* C16: with plotfiles false the graph never holds a FILE node or a file  *)
(* event node, with plotnetwork false never a HOST, IP, SOCKET or         *)
(* TCPCONNECT node; whatever the flags, the process nodes and the         *)
(* process->process edges of the finished graph are those of the tree     *)
(* walk, hence the same as with both flags true.                          *)
C16_FlagsGate ==
    /\ ~plotfiles => \A t \in FileEventTypes \cup {"FILE"} : NodesOfType(t) = {}
    /\ ~plotnetwork => \A t \in NetworkTypes : NodesOfType(t) = {}
    /\ pc = "done" =>
           /\ ProcessNodes = DOMAIN Walked.node
           /\ NodesOfType("PID") = ProcessNodes
           /\ ProcessEdges = Walked.edge

(* a finished construction without file activity of a process that made a *)
(* file call and opened a socket: the socket is in the graph              *)
C16_Witness ==
    /\ pc = "done"
    /\ ~plotfiles
    /\ plotnetwork
    /\ \E k \in AllCalls : IsTwoPath(k)
    /\ NodesOfType("SOCKET") # {}
    /\ Cardinality(ProcessEdges) = 1

EventTypes == FileEventTypes \cup {"SOCKET", "TCPCONNECT"}

EventNodes == {n \in DOMAIN nodemetadata : nodemetadata[n].node_type \in EventTypes}

(* the event nodes of process i that carry the time of its call k *)
EventsAt(i, k) ==
    {e \in EventNodes :
        /\ <<PidName(Processes[i].process_id), e>> \in digraph.edge
        /\ IF nodemetadata[e].node_type = "SOCKET"
           THEN nodemetadata[e].opentime = k.timestamp
           ELSE nodemetadata[e].timestamp = k.timestamp}

(* C17: no two event nodes share their sequence number, every event node  *)
(* is a node of the graph with the type of its event, and in the finished *)
(* construction every accepted file call and every socket call of every   *)
(* process has its own event node, calls with identical arguments         *)
(* included.                                                              *)
C17_EventIdsUnique ==
    /\ \A e1, e2 \in EventNodes : e1[2] = e2[2] => e1 = e2
    /\ \A e \in EventNodes :
           /\ e \in DOMAIN digraph.node
           /\ TypeOf(e) = nodemetadata[e].node_type
           /\ e[1] \notin {"PID", "FILE", "HOST", "IP"}
    /\ pc = "done" =>
           \A i \in 1..Len(Processes) : \A j \in 1..Len(Processes[i].calls) :
               LET k == Processes[i].calls[j] IN
               /\ plotfiles /\ (IsOnePath(k) \/ IsTwoPath(k)) =>
                      Cardinality(EventsAt(i, k)) = 1
               /\ plotnetwork /\ k.api = "socket" => Cardinality(EventsAt(i, k)) = 1

(* a finished construction in which process 1 made the same file create   *)
(* twice and process 2 the same create again: three FILECREATE nodes of   *)
(* one file                                                               *)
C17_Witness ==
    /\ pc = "done"
    /\ Cardinality(NodesOfType("FILECREATE")) = 3
    /\ Cardinality(NodesOfType("FILE")) = 1
    /\ Cardinality(NodesOfType("SOCKET")) = 1

-----------------------------------------------------------------------------
(* The empty ignore list *)

(* C19: with an empty ignore list the filter of the file functions        *)
(* admits every path whatever the include list, the construction does not *)
(* fail, and in the finished construction every successful file call of   *)
(* the six categories has its event node.                                 *)
C19_EmptyIgnoreAdmits ==
    ignorepaths = <<>> =>
        /\ \A p \in CheckedPaths : PathCheck(Some(p), ignorepaths, includepaths) = "pass"
        /\ pc # "error"
        /\ pc = "done" =>
               \A i \in 1..Len(Processes) : \A j \in 1..Len(Processes[i].calls) :
                   LET k == Processes[i].calls[j] IN
                   IsOnePath(k) \/ IsTwoPath(k) => Cardinality(EventsOf(k)) = 1

(* a finished construction with an empty ignore list and an include list  *)
(* that hits none of the paths of a call that has its event node          *)
C19_Witness ==
    /\ pc = "done"
    /\ ignorepaths = <<>>
    /\ includepaths # <<>>
    /\ \E i \in 1..Len(Processes) : \E j \in 1..Len(Processes[i].calls) :
           LET k == Processes[i].calls[j] IN
           /\ IsTwoPath(k)
           /\ \A p \in PathsOf(k) : ~FoundIn(includepaths, p)
           /\ EventsOf(k) # {}

-----------------------------------------------------------------------------
(* Forward references in the tree walk *)

(* entry i is visited while its parent pid, the pid of the later entry j, *)
(* has not been visited                                                   *)
ForwardReference(i, j) ==
    /\ i < j
    /\ Entries[i].parent_id = Entries[j].pid
    /\ Entries[i].pid # Entries[j].pid
    /\ \A h \in 1..(i - 1) : Entries[h].pid # Entries[j].pid

SeqMembers(seq) == {seq[i] : i \in 1..Len(seq)}

(* C20 as stated: after the tree walk of a tree with distinct pids, for   *)
(* every entry visited before the entry of its parent pid the edge        *)
(* parent->child is in the graph and the child is still among the         *)
(* children recorded for the parent, which has its full data.             *)
C20_ForwardReferences ==
    WalkDone /\ DistinctPids =>
        \A i, j \in 1..Len(Entries) :
            ForwardReference(i, j) =>
                LET parent == PidName(Entries[j].pid)
                    child == PidName(Entries[i].pid) IN
                /\ <<parent, child>> \in digraph.edge
                /\ "module_path" \in DOMAIN nodemetadata[parent]
                /\ child \in SeqMembers(nodemetadata[parent].children)

-----------------------------------------------------------------------------
(* Socket close time *)

(* the times of the socket-close calls of a process later than a time *)
ClosesAfter(process, opentime) ==
    {process.calls[j].timestamp :
        j \in {h \in 1..Len(process.calls) :
                  /\ process.calls[h].api = "closesocket"
                  /\ process.calls[h].timestamp > opentime}}

-----------------------------------------------------------------------------
(* Edges of a file event *)

FileEvents == {n \in DOMAIN nodemetadata : nodemetadata[n].node_type \in FileEventTypes}

TwoPathTypes == {"FILECOPY", "FILEMOVE"}

(* the process nodes that made a call of the time and the paths of event e *)
Performers(e) ==
    {PidName(Processes[i].process_id) :
        i \in {h \in 1..Len(Processes) :
                  \E j \in 1..Len(Processes[h].calls) :
                      LET k == Processes[h].calls[j] IN
                      /\ IsOnePath(k) \/ IsTwoPath(k)
                      /\ k.timestamp = nodemetadata[e].timestamp
                      /\ IF nodemetadata[e].node_type \in TwoPathTypes
                         THEN PathsOf(k) = {nodemetadata[e].newfile,
                                            nodemetadata[e].existingfile}
                         ELSE PathsOf(k) = {nodemetadata[e].file}}}

(* one incoming edge, from the process of the call; outgoing edges to     *)
(* FILE nodes only                                                        *)
EventEdgesToFiles(e) ==
    /\ Cardinality(Predecessors(e)) = 1
    /\ Predecessors(e) \subseteq Performers(e)
    /\ Successors(e) \subseteq NodesOfType("FILE")

(* C22 as stated: every file event node has one incoming edge, from the   *)
(* process of the call, and outgoing edges to FILE nodes only: exactly    *)
(* one for create, write, read and delete, exactly two for copy and move. *)
C22_AsStated ==
    \A e \in FileEvents :
        /\ EventEdgesToFiles(e)
        /\ Cardinality(Successors(e)) =
               IF nodemetadata[e].node_type \in TwoPathTypes THEN 2 ELSE 1

(* C22 amended: the outgoing edges of a create, write, read or delete     *)
(* event go to the node of its file; those of a copy or move event go to  *)
(* the node of the new path and to the node of the existing path, which   *)
(* are two edges when the two paths differ and one edge when a file is    *)
(* copied or moved onto itself.                                           *)
C22_EventEdges ==
    \A e \in FileEvents :
        /\ EventEdgesToFiles(e)
        /\ Successors(e) =
               IF nodemetadata[e].node_type \in TwoPathTypes
               THEN {FileNodeName(nodemetadata[e].newfile),
                     FileNodeName(nodemetadata[e].existingfile)}
               ELSE {FileNodeName(nodemetadata[e].file)}
        /\ nodemetadata[e].node_type \in TwoPathTypes =>
               (Cardinality(Successors(e)) = 2 <=>
                    nodemetadata[e].newfile # nodemetadata[e].existingfile)

(* a finished construction with a copy event of two different paths and a *)
(* move event of a file onto itself                                       *)
C22_Witness ==
    /\ pc = "done"
    /\ \E e \in NodesOfType("FILECOPY") :
           nodemetadata[e].newfile # nodemetadata[e].existingfile
    /\ \E e \in NodesOfType("FILEMOVE") :
           nodemetadata[e].newfile = nodemetadata[e].existingfile

-----------------------------------------------------------------------------
(* Module-load links *)

(* the module path the tree gives for process node p, as a set *)
ModulePathsOf(p) ==
    {Entries[i].module_path : i \in {h \in 1..Len(Entries) : PidName(Entries[h].pid) = p}}

(* C23: in the finished graph, for every FILE node f and every process    *)
(* node p, the edge f->p exists if and only if the raw path of f equals   *)
(* the module path of p; the FILE nodes are those of the paths of the     *)
(* calls of all processes.                                                *)
C23_ModuleLoad ==
    pc = "done" =>
        /\ \A f \in NodesOfType("FILE") : \A p \in NodesOfType("PID") :
               <<f, p>> \in digraph.edge <=> nodemetadata[f].file \in ModulePathsOf(p)
        /\ \A f \in NodesOfType("FILE") :
               /\ f = FileNodeName(nodemetadata[f].file)
               /\ Predecessors(f) \subseteq FileEvents
               /\ Successors(f) \subseteq NodesOfType("PID")
        /\ \A i \in 1..Len(Processes) : \A j \in 1..Len(Processes[i].calls) :
               LET k == Processes[i].calls[j] IN
               IsOnePath(k) \/ IsTwoPath(k) =>
                   \A path \in PathsOf(k) : FileNodeName(path) \in NodesOfType("FILE")

(* a finished graph in which a file that only process 2 touched is linked *)
(* to process 1, whose module it is, and another file is linked to no     *)
(* process                                                                *)
C23_Witness ==
    /\ pc = "done"
    /\ <<FileNodeName(PathAZ), PidName(1)>> \in digraph.edge
    /\ <<FileNodeName(PathAZ), PidName(2)>> \notin digraph.edge
    /\ \A j \in 1..Len(Processes[1].calls) : PathAZ \notin PathsOf(Processes[1].calls[j])
    /\ \E f \in NodesOfType("FILE") : Successors(f) = {}

-----------------------------------------------------------------------------
(* Command lines *)

(* the command line of node n, absent while the node has none *)
CmdlineOf(n) ==
    IF "cmdline" \in DOMAIN nodemetadata[n] THEN Some(nodemetadata[n].cmdline) ELSE None

(* what the tree walk leaves: no command line for a visited process, the  *)
(* empty one for the placeholder of a parent                              *)
DefaultCmdline(n) == IF "pid" \in DOMAIN nodemetadata[n] THEN None ELSE Some("")

(* C24 as stated: the command line of a process node differs from what    *)
(* the tree walk left only if a successful creation call names the pid of *)
(* the process as child and carries that command line as argument.        *)
C24_CmdlineResolution ==
    \A n \in NodesOfType("PID") :
        n \in DOMAIN nodemetadata /\ CmdlineOf(n) # DefaultCmdline(n) =>
            \E k \in AllCalls :
                /\ IsCreateProc(k)
                /\ k.status = TRUE
                /\ ChildPid(k) # None
                /\ PidName(Val(ChildPid(k))) = n
                /\ ArgValue(k.arguments, "CommandLine") = CmdlineOf(n)

-----------------------------------------------------------------------------
(* Failed file calls *)

FileApis == CreateApis \cup WriteApis \cup ReadApis \cup CopyApis \cup DeleteApis \cup MoveApis

IsFailedFileCall(k) == k.api \in FileApis /\ k.status # TRUE

RECURSIVE WithoutFailed(_)
WithoutFailed(calls) ==
    IF calls = <<>> THEN <<>>
    ELSE IF IsFailedFileCall(Head(calls)) THEN WithoutFailed(Tail(calls))
    ELSE <<Head(calls)>> \o WithoutFailed(Tail(calls))

(* the report without the failed file calls; a process all of whose calls *)
(* failed keeps one call that is no file call                             *)
SuccessfulOnly ==
    [jsonreportdata EXCEPT !.behavior.processes =
        [i \in 1..Len(Processes) |->
            [Processes[i] EXCEPT !.calls =
                IF WithoutFailed(@) = <<>> THEN <<OtherCall>> ELSE WithoutFailed(@)]]]

OfSuccessfulOnly ==
    Build(<<>>, SuccessfulOnly, ignorepaths, includepaths, plotnetwork, plotfiles)

NotPid(md) == {n \in DOMAIN md : md[n].node_type # "PID"}

(* C25: every file event node and every FILE node comes from a successful *)
(* call, and the finished graph and the entries of the files and events   *)
(* are those of the same report without its failed file calls: a failed   *)
(* call of any of the six categories adds no event node, no FILE node and *)
(* no edge.                                                               *)
C25_FailedCallsProduceNothing ==
    /\ \A e \in FileEvents : Performers(e) # {}
    /\ \A f \in NodesOfType("FILE") :
           \E k \in AllCalls : (IsOnePath(k) \/ IsTwoPath(k)) /\ nodemetadata[f].file \in PathsOf(k)
    /\ pc = "done" =>
           /\ digraph = OfSuccessfulOnly.g
           /\ NotPid(nodemetadata) = NotPid(OfSuccessfulOnly.md)
           /\ \A n \in NotPid(nodemetadata) : nodemetadata[n] = OfSuccessfulOnly.md[n]

(* a finished construction of a failed create of one file and a           *)
(* successful write of another: the written file and its event are there, *)
(* no create event and no node of the file of the failed create           *)
C25_Witness ==
    /\ pc = "done"
    /\ \E k \in AllCalls : k.api = "NtCreateFile" /\ k.status = FALSE
    /\ \E k \in AllCalls : k.api = "NtWriteFile" /\ k.status = TRUE
    /\ NodesOfType("FILECREATE") = {}
    /\ FileNodeName(PathA) \notin DOMAIN digraph.node
    /\ NodesOfType("FILEWRITE") # {}

-----------------------------------------------------------------------------
(* Phases *)

(* the nodes of the graph, and the entries of the table, that are no      *)
(* process                                                                *)
ActivityNodes == {n \in DOMAIN digraph.node : TypeOf(n) # "PID"}

ActivityEntries == {n \in DOMAIN nodemetadata : nodemetadata[n].node_type # "PID"}

TreePhaseComplete ==
    /\ stack = <<>>
    /\ \A i \in 1..Len(Entries) : PidName(Entries[i].pid) \in NodesOfType("PID")
    /\ \A i \in 1..Len(Processes) : HasCalls(i)

(* C26: while the tree walk and the second pass are under way the graph   *)
(* holds no FILE, HOST, IP or event node, and whenever it holds one every *)
(* tree entry has been visited and every process of the list has its call *)
(* list.                                                                  *)
C26_PhaseOrdering ==
    /\ pc \in {"processes", "tree", "metadata"} =>
           ActivityNodes = {} /\ ActivityEntries = {}
    /\ ActivityNodes # {} \/ ActivityEntries # {} \/ pc \in {"network", "files"} =>
           TreePhaseComplete

(* the network activity of one process is in the graph while another      *)
(* process still waits for its turn and no file activity has been added   *)
C26_Witness ==
    /\ pc = "network"
    /\ todo # {}
    /\ NodesOfType("SOCKET") # {}
    /\ NodesOfType("FILE") = {}
    /\ TreePhaseComplete

-----------------------------------------------------------------------------
(* The two correlators *)

FileSide == {"PID", "FILE"} \cup FileEventTypes

NetworkSide == {"PID"} \cup NetworkTypes

(* a node up to the sequence number of an event: an event node is known   *)
(* by its entry in the table                                              *)
UpToNumber(s, n) == IF s.g.node[n] \in EventTypes THEN <<"event", s.md[n]>> ELSE n

NodesOn(s, side) == {n \in DOMAIN s.g.node : s.g.node[n] \in side}

(* the nodes and edges of one side of a construction, up to the sequence  *)
(* numbers, with the number of nodes of the side                          *)
SideOf(s, side) ==
    [node |-> {UpToNumber(s, n) : n \in NodesOn(s, side)},
     edge |-> {<<UpToNumber(s, d[1]), UpToNumber(s, d[2])>> :
                  d \in {e \in s.g.edge : e[1] \in NodesOn(s, side) /\ e[2] \in NodesOn(s, side)}},
     count |-> Cardinality(NodesOn(s, side) \ NodesOn(s, {"PID"}))]

Constructed == St(nodemetadata, digraph)

WithoutNetwork == Build(<<>>, jsonreportdata, ignorepaths, includepaths, FALSE, plotfiles)

WithoutFiles == Build(<<>>, jsonreportdata, ignorepaths, includepaths, plotnetwork, FALSE)

(* the same passes with the file activity added before the network activity *)
FilesFirst ==
    LET joined == MetadataAll(WalkAll(St(<<>>, EmptyGraph), ProcessTree), Processes, 1)
        fil == IF plotfiles
               THEN FilesAll(joined, PidNodesWithCalls(joined.md), ignorepaths, includepaths)
               ELSE joined
    IN IF plotnetwork
       THEN NetworkAll(fil, PidNodesWithCalls(fil.md), jsonreportdata.network.domains)
       ELSE fil

(* C27: the FILE nodes, the file event nodes up to their sequence numbers *)
(* and the edges among processes, file events and files of the finished   *)
(* graph are those of the construction without network activity and of    *)
(* the construction that adds the file activity first; the HOST, IP,      *)
(* SOCKET and TCPCONNECT nodes and their edges are those of the           *)
(* construction without file activity and of the one that adds the file   *)
(* activity first.                                                        *)
C27_CorrelatorsIndependent ==
    pc = "done" =>
        /\ SideOf(Constructed, FileSide) = SideOf(WithoutNetwork, FileSide)
        /\ SideOf(Constructed, FileSide) = SideOf(FilesFirst, FileSide)
        /\ SideOf(Constructed, NetworkSide) = SideOf(WithoutFiles, NetworkSide)
        /\ SideOf(Constructed, NetworkSide) = SideOf(FilesFirst, NetworkSide)
        /\ \A d \in digraph.edge :
               \/ {TypeOf(d[1]), TypeOf(d[2])} \subseteq FileSide
               \/ {TypeOf(d[1]), TypeOf(d[2])} \subseteq NetworkSide

(* a finished construction with both activities in which a file event has *)
(* another sequence number than without the network activity              *)
C27_Witness ==
    /\ pc = "done"
    /\ plotnetwork /\ plotfiles
    /\ NodesOfType("TCPCONNECT") # {}
    /\ NodesOfType("FILECOPY") # {}
    /\ NodesOfType("FILECOPY") \cap DOMAIN WithoutNetwork.g.node = {}

-----------------------------------------------------------------------------
(* Reused handles *)

(* the SOCKET nodes of process p that have a TCPCONNECT node made at the  *)
(* time of call k for the address of k                                    *)
SocketsWith(p, k) ==
    {s \in SocketsOf(p) : \E n \in ConnectsOf(s) : ComesFrom(n, k)}

(* k is the only connect call of process p made at its time *)
AloneAtItsTime(p, k) ==
    \A j \in 1..Len(p.calls) :
        IsConnect(p.calls[j]) /\ p.calls[j].timestamp = k.timestamp => p.calls[j] = k

(* C28 as stated: every connect call of a process is attached to at most  *)
(* one SOCKET node of the process, also when several socket calls of the  *)
(* process use the same handle.                                           *)
C28_AtMostOneSocket ==
    pc = "done" =>
        \A i \in 1..Len(Processes) : \A j \in 1..Len(Processes[i].calls) :
            LET k == Processes[i].calls[j] IN
            IsConnect(k) /\ AloneAtItsTime(Processes[i], k) =>
                Cardinality(SocketsWith(Processes[i], k)) <= 1

-----------------------------------------------------------------------------
(* The graph and the metadata table *)

(* C29 as stated: in every state every node of the graph has an entry in  *)
(* the metadata table whose node_type is the type of the node in the      *)
(* graph.                                                                 *)
C29_GraphAndTableAgree ==
    \A n \in DOMAIN digraph.node :
        /\ n \in DOMAIN nodemetadata
        /\ nodemetadata[n].node_type = TypeOf(n)

-----------------------------------------------------------------------------
(* Missing path arguments *)

(* the path arguments the function of the call reads *)
RequiredPaths(k) ==
    IF k.api \in CreateApis \cup DeleteApis THEN {"FileName"}
    ELSE IF k.api \in WriteApis \cup ReadApis THEN {"HandleName"}
    ELSE {"ExistingFileName", "NewFileName"}

Incomplete(k) ==
    /\ IsOnePath(k) \/ IsTwoPath(k)
    /\ \E a \in RequiredPaths(k) : ArgValue(k.arguments, a) = None

(* C30 as stated: a successful file call that lacks a required path       *)
(* argument does not abort the construction and leaves nothing: every     *)
(* FILE node and every file event node comes from a call that has all its *)
(* path arguments.                                                        *)
C30_MissingPathDropped ==
    /\ pc # "error"
    /\ \A f \in NodesOfType("FILE") :
           \E k \in AllCalls : ~Incomplete(k) /\ nodemetadata[f].file \in PathsOf(k)
    /\ \A e \in FileEvents :
           \E k \in AllCalls : ~Incomplete(k) /\ k.timestamp = nodemetadata[e].timestamp

====
